---- MODULE Spec2Model ----
(***************************************************************************)
(* A model of go-csvlib: the Decoder and Encoder sessions (decoder.go,     *)
(* encoder.go), the header reconciler, the row engine and the error model. *)
(* One behaviour is one session: a Decoder over an input of rows, or an    *)
(* Encoder over a writer.                                                  *)
(***************************************************************************)
EXTENDS Integers, Sequences, FiniteSets, TLC

VARIABLES
    session,  \* "decoder" or "encoder": which constructor built the session
    cfg,      \* DecodeConfig / EncodeConfig flags
    fields,   \* the declared fields of record type Item
    input,    \* what the Reader yields, call after call, before io.EOF
    d,        \* the Decoder object
    dest,     \* the caller's destination slice of Decode
    one,      \* the caller's record of the last DecodeOne call
    ret,      \* what the last call returned
    hist,     \* history: the row errors DecodeOne calls have returned, in call order,
              \* and whether Decode has been called
    e,        \* the Encoder object
    out       \* the rows the Writer has accepted

vars == <<session, cfg, fields, input, d, dest, one, ret, hist, e, out>>

(***************************************************************************)
(* Bounds of the model.                                                    *)
(***************************************************************************)
MaxRows == 2      \* data rows of a decoder session's input
MaxHdr == 4       \* names in a live header of the header specification
MaxOut == 3       \* rows an encoder session writes
MaxItems == 2     \* items of one Encode call

(***************************************************************************)
(* Small helpers on sequences.                                             *)
(***************************************************************************)
Min(S) == CHOOSE x \in S : \A y \in S : x <= y

Range(s) == {s[i] : i \in 1..Len(s)}

SeqsUpTo(S, n) == UNION {[1..k -> S] : k \in 0..n}

\* strings.TrimSpace on the names the model uses: " a" is a padded name.
TrimSpace(s) == IF s = " a" THEN "a" ELSE IF s = " " THEN "" ELSE s

(***************************************************************************)
(* Errors. Every error value has the same shape; kind tells what it is:    *)
(* "nil", "plain" (a sentinel or wrapped sentinel), "row" (a RowErrors),   *)
(* "errors" (an Errors).                                                   *)
(***************************************************************************)
NilErr == [kind |-> "nil", cause |-> "", row |-> 0, cells |-> <<>>, errs |-> <<>>]

PlainErr(c) == [kind |-> "plain", cause |-> c, row |-> 0, cells |-> <<>>, errs |-> <<>>]

NewCellError(c, column, header) == [cause |-> c, column |-> column, header |-> header, value |-> ""]

NewRowErrors(row, cells) == [kind |-> "row", cause |-> "", row |-> row, cells |-> cells, errs |-> <<>>]

AsError(errors) == [kind |-> "errors", cause |-> "", row |-> 0, cells |-> <<>>, errs |-> errors.errs]

NewErrors == [errs |-> <<>>, totalRow |-> 0, header |-> <<>>]

ErrorsAdd(errors, err) == [errors EXCEPT !.errs = Append(@, err)]

HasError(errors) == Len(errors.errs) > 0

OfCause(c) == IF c = "" THEN NilErr ELSE PlainErr(c)

\* the type assertions of the counting loops: a member is a *CellError, a
\* *RowErrors, or another error
IsCellError(m) == "column" \in DOMAIN m

IsRowErrors(m) == "kind" \in DOMAIN m /\ m.kind = "row"

\* RowErrors.Add; the members of a RowErrors are its cells
RowErrorsAdd(r, m) == [r EXCEPT !.cells = Append(@, m)]

\* RowErrors.TotalError
RowTotalError(r) == Len(r.cells)

\* RowErrors.TotalCellError: the loop over the members, c the count so far
RECURSIVE rowCellLoop(_, _, _)
rowCellLoop(ms, i, c) ==
    IF i > Len(ms) THEN c
    ELSE rowCellLoop(ms, i + 1, IF IsCellError(ms[i]) THEN c + 1 ELSE c)

RowTotalCellError(r) == rowCellLoop(r.cells, 1, 0)

\* Errors.TotalRowError
RECURSIVE totalRowErrorLoop(_, _, _)
totalRowErrorLoop(ms, i, c) ==
    IF i > Len(ms) THEN c
    ELSE totalRowErrorLoop(ms, i + 1, IF IsRowErrors(ms[i]) THEN c + 1 ELSE c)

TotalRowError(errors) == totalRowErrorLoop(errors.errs, 1, 0)

\* Errors.TotalCellError
RECURSIVE totalCellErrorLoop(_, _, _)
totalCellErrorLoop(ms, i, c) ==
    IF i > Len(ms) THEN c
    ELSE totalCellErrorLoop(ms, i + 1,
            IF IsRowErrors(ms[i]) THEN c + RowTotalCellError(ms[i]) ELSE c)

TotalCellError(errors) == totalCellErrorLoop(errors.errs, 1, 0)

\* an Errors.TotalError that counts a RowErrors member as one error
RECURSIVE totalErrorLoopFlat(_, _, _)
totalErrorLoopFlat(ms, i, c) ==
    IF i > Len(ms) THEN c ELSE totalErrorLoopFlat(ms, i + 1, c + 1)

\* Errors.TotalError
RECURSIVE totalErrorLoop(_, _, _)
totalErrorLoop(ms, i, c) ==
    IF i > Len(ms) THEN c
    ELSE totalErrorLoop(ms, i + 1,
            IF IsRowErrors(ms[i]) THEN c + RowTotalError(ms[i]) ELSE c + 1)

TotalError(errors) == totalErrorLoop(errors.errs, 1, 0)

(***************************************************************************)
(* Record types. A field is its parsed tag and its Go type:                *)
(*   name, ignored, optional, omitempty, inline, prefix, exported, kind,   *)
(*   pointer                                                               *)
(* kind is "int", "string", "map", "dynamic" (an InlineColumn[T], with     *)
(* elem the kind of T) or "fixed" (a struct, with sub its fields). Type    *)
(* Other is a second record type.                                          *)
(***************************************************************************)
Col(name, optional, kind) ==
    [name |-> name, ignored |-> FALSE, optional |-> optional, omitempty |-> FALSE,
     inline |-> FALSE, prefix |-> "", exported |-> TRUE, kind |-> kind, elem |-> "",
     sub |-> <<>>, pointer |-> FALSE]

Dyn(name, elem) ==
    [name |-> name, ignored |-> FALSE, optional |-> FALSE, omitempty |-> FALSE,
     inline |-> TRUE, prefix |-> "", exported |-> TRUE, kind |-> "dynamic", elem |-> elem,
     sub |-> <<>>, pointer |-> FALSE]

\* a field tagged inline whose type is a struct with the fields sub
Fixed(name, prefix, sub) ==
    [name |-> name, ignored |-> FALSE, optional |-> FALSE, omitempty |-> FALSE,
     inline |-> TRUE, prefix |-> prefix, exported |-> TRUE, kind |-> "fixed", elem |-> "",
     sub |-> sub, pointer |-> FALSE]

\* a group whose field is a pointer to the struct; the field is modelled by
\* its pointee, and a nil pointer by the zero pointee
Ptr(f) == [f EXCEPT !.pointer = TRUE]

OtherFields == <<Col("a", FALSE, "int"), Col("b", FALSE, "int")>>

indirectType(t) == IF t = "*Item" THEN "Item" ELSE IF t = "*Other" THEN "Other" ELSE t

StructFields(t) == IF indirectType(t) = "Item" THEN fields ELSE OtherFields

IsStruct(t) == t \in {"Item", "Other"}

\* parseTag: the validations of a parsed tag.
parseTag(f) ==
    IF ~f.ignored /\ ~f.exported THEN "ErrTagOptionInvalid"
    ELSE IF f.prefix # "" /\ ~f.inline THEN "ErrTagOptionInvalid"
    ELSE IF f.inline /\ f.optional THEN "ErrTagOptionInvalid"
    ELSE ""

(***************************************************************************)
(* Schema Resolver of the decoder (decoder.go).                            *)
(* A decodeColumnMeta is a record; target is the index of the struct field *)
(* it writes, inline is "none" or "dynamic", kind selects the decode       *)
(* function. The header names of a dynamic group (inlineColumnMeta         *)
(* .headerText) are kept per target field in the map "groups".             *)
(***************************************************************************)
\* LocalizationFunc: the translation of a header key.
Localize(key) == IF key = "a" THEN "x" ELSE key

\* decodeColumnMeta.localizeHeader
localizeHeader(c, colMeta) ==
    IF c.ParseLocalizedHeader THEN [colMeta EXCEPT !.headerText = Localize(colMeta.headerKey)]
    ELSE colMeta

\* decodeColumnMeta.copyConfig with cfg.columnConfigMap[key], falling back to the parent key
copyConfig(c, colMeta, key, parentKey) ==
    IF key \in DOMAIN c.columnConfigMap
    THEN [colMeta EXCEPT !.stopOnError = c.columnConfigMap[key].StopOnError,
                         !.validatorFuncs = c.columnConfigMap[key].ValidatorFuncs,
                         !.trimSpace = c.columnConfigMap[key].TrimSpace,
                         !.preprocessorFuncs = c.columnConfigMap[key].PreprocessorFuncs]
    ELSE IF parentKey \in DOMAIN c.columnConfigMap
    THEN [colMeta EXCEPT !.stopOnError = c.columnConfigMap[parentKey].StopOnError,
                         !.validatorFuncs = c.columnConfigMap[parentKey].ValidatorFuncs,
                         !.trimSpace = c.columnConfigMap[parentKey].TrimSpace,
                         !.preprocessorFuncs = c.columnConfigMap[parentKey].PreprocessorFuncs]
    ELSE colMeta

newDecodeColumnMeta(f, i) ==
    [column |-> 0, headerKey |-> f.name, headerText |-> f.name, parentKey |-> "",
     prefix |-> f.prefix, optional |-> f.optional, unrecognized |-> FALSE,
     omitempty |-> f.omitempty, stopOnError |-> FALSE, target |-> i, subTarget |-> 0,
     inline |-> "none", kind |-> f.kind, validatorFuncs |-> <<>>,
     trimSpace |-> FALSE, preprocessorFuncs |-> <<>>, inlinePtr |-> f.pointer]

\* parseInlineColumnDynamicType: the one placeholder column of a dynamic group
parseInlineColumnDynamicType(c, f, parent) ==
    copyConfig(c,
        [parent EXCEPT !.headerKey = parent.prefix \o parent.headerKey,
                       !.parentKey = parent.headerKey,
                       !.inline = "dynamic",
                       !.kind = f.elem],
        parent.prefix \o parent.headerKey, parent.headerKey)

\* parseInlineColumnFixedType: one column per field of the inline struct that
\* is not ignored; [err, cols]
fixedColumnMeta(c, parent, sf, j) ==
    localizeHeader(c, copyConfig(c,
        [column |-> 0, headerKey |-> parent.prefix \o sf.name,
         headerText |-> parent.prefix \o sf.name, parentKey |-> parent.headerKey,
         prefix |-> "", optional |-> sf.optional, unrecognized |-> FALSE,
         omitempty |-> sf.omitempty, stopOnError |-> FALSE, target |-> parent.target,
         subTarget |-> j, inline |-> "fixed", kind |-> sf.kind, validatorFuncs |-> <<>>,
         trimSpace |-> FALSE, preprocessorFuncs |-> <<>>, inlinePtr |-> parent.inlinePtr],
        parent.prefix \o sf.name, parent.headerKey))

RECURSIVE fixedLoop(_, _, _, _, _)
fixedLoop(c, sub, parent, j, acc) ==
    IF j > Len(sub) THEN [err |-> "", cols |-> acc]
    ELSE IF parseTag(sub[j]) # "" THEN [err |-> parseTag(sub[j]), cols |-> <<>>]
    ELSE IF sub[j].ignored THEN fixedLoop(c, sub, parent, j + 1, acc)
    ELSE fixedLoop(c, sub, parent, j + 1, Append(acc, fixedColumnMeta(c, parent, sub[j], j)))

parseInlineColumnFixedType(c, f, parent) ==
    IF f.kind # "fixed" THEN [err |-> "ErrHeaderDynamicTypeInvalid", cols |-> <<>>]
    ELSE fixedLoop(c, f.sub, parent, 1, <<>>)

\* parseInlineColumn: a dynamic group when the field's type has the shape of
\* InlineColumn[T], else a fixed group when it is a struct with a column; the
\* error of the fixed parse is replaced
inlineFixedOrInvalid(r) ==
    IF r.err = "" /\ Len(r.cols) > 0 THEN r
    ELSE [err |-> "ErrHeaderDynamicTypeInvalid", cols |-> <<>>]

parseInlineColumn(c, f, parent) ==
    IF f.kind = "dynamic"
    THEN [err |-> "", cols |-> <<parseInlineColumnDynamicType(c, f, parent)>>]
    ELSE inlineFixedOrInvalid(parseInlineColumnFixedType(c, f, parent))

\* validateHeaderUniqueness: keys are trimmed and non-empty, and unique except
\* for the columns of a dynamic group
validateHeaderUniqueness(colsMeta) ==
    LET bad(i) == TrimSpace(colsMeta[i].headerKey) # colsMeta[i].headerKey
                  \/ TrimSpace(colsMeta[i].headerKey) = ""
        dup(i) == colsMeta[i].inline # "dynamic"
                  /\ \E j \in 1..(i - 1) : colsMeta[j].headerKey = colsMeta[i].headerKey
        offenders == {i \in 1..Len(colsMeta) : bad(i) \/ dup(i)}
    IN  IF offenders = {} THEN ""
        ELSE IF bad(Min(offenders)) THEN "ErrHeaderColumnInvalid"
        ELSE "ErrHeaderColumnDuplicated"

\* validateHeader (util.go): the names of a header row
validateHeader(header) ==
    LET bad(i) == TrimSpace(header[i]) # header[i] \/ TrimSpace(header[i]) = ""
        dup(i) == \E j \in 1..(i - 1) : header[j] = header[i]
        offenders == {i \in 1..Len(header) : bad(i) \/ dup(i)}
    IN  IF offenders = {} THEN ""
        ELSE IF bad(Min(offenders)) THEN "ErrHeaderColumnInvalid"
        ELSE "ErrHeaderColumnDuplicated"

\* a check of the inline columns that lets a localized header pass
validateConfigOnInlineColumnsLocalized(c, hasDynamic, fileHeader) ==
    IF c.NoHeaderMode \/ Len(fileHeader) = 0 THEN "ErrHeaderDynamicNotAllowNoHeaderMode"
    ELSE IF hasDynamic /\ ~c.RequireColumnOrder THEN "ErrHeaderDynamicRequireColumnOrder"
    ELSE IF hasDynamic /\ c.AllowUnrecognizedColumns THEN "ErrHeaderDynamicNotAllowUnrecognizedColumns"
    ELSE ""

\* validateConfigOnInlineColumns
validateConfigOnInlineColumns(c, hasDynamic, fileHeader) ==
    IF c.NoHeaderMode \/ Len(fileHeader) = 0 THEN "ErrHeaderDynamicNotAllowNoHeaderMode"
    ELSE IF hasDynamic /\ ~c.RequireColumnOrder THEN "ErrHeaderDynamicRequireColumnOrder"
    ELSE IF hasDynamic /\ c.AllowUnrecognizedColumns THEN "ErrHeaderDynamicNotAllowUnrecognizedColumns"
    ELSE IF hasDynamic /\ c.ParseLocalizedHeader THEN "ErrHeaderDynamicNotAllowLocalizedHeader"
    ELSE ""

\* The names a group at schema position i takes from the live header, starting at
\* fileHeaderIndex: the scan stops only at the header of the schema column i+1.
RECURSIVE absorbRun(_, _, _, _)
absorbRun(colsMetaFromStruct, fileHeader, i, j) ==
    IF j > Len(fileHeader) THEN <<>>
    ELSE IF i + 1 <= Len(colsMetaFromStruct) /\ colsMetaFromStruct[i + 1].headerText = fileHeader[j]
    THEN <<>>
    ELSE <<fileHeader[j]>> \o absorbRun(colsMetaFromStruct, fileHeader, i, j + 1)

\* parseDynamicInlineColumns: the loop over the schema columns; i is the schema
\* position, fileHeaderIndex the next live position (both 1-based here).
RECURSIVE parseDynamicLoop(_, _, _, _, _, _)
parseDynamicLoop(colsMetaFromStruct, fileHeader, i, fileHeaderIndex, newCols, groups) ==
    IF i > Len(colsMetaFromStruct) THEN [err |-> "", cols |-> newCols, groups |-> groups]
    ELSE LET colMeta == colsMetaFromStruct[i] IN
        IF colMeta.inline # "dynamic"
        THEN IF fileHeaderIndex <= Len(fileHeader) /\ fileHeader[fileHeaderIndex] = colMeta.headerText
             THEN parseDynamicLoop(colsMetaFromStruct, fileHeader, i + 1, fileHeaderIndex + 1,
                                   Append(newCols, colMeta), groups)
             ELSE IF colMeta.optional
             THEN parseDynamicLoop(colsMetaFromStruct, fileHeader, i + 1, fileHeaderIndex,
                                   Append(newCols, colMeta), groups)
             ELSE [err |-> "ErrHeaderDynamicNotAllowUnrecognizedColumns", cols |-> <<>>, groups |-> groups]
        ELSE LET run == absorbRun(colsMetaFromStruct, fileHeader, i, fileHeaderIndex) IN
             parseDynamicLoop(colsMetaFromStruct, fileHeader, i + 1, fileHeaderIndex + Len(run),
                              newCols \o [k \in 1..Len(run) |-> [colMeta EXCEPT !.headerText = run[k]]],
                              [groups EXCEPT ![colMeta.target] = @ \o run])

parseDynamicInlineColumns(colsMetaFromStruct, fileHeader) ==
    parseDynamicLoop(colsMetaFromStruct, fileHeader, 1, 1, <<>>,
                     [t \in {colsMetaFromStruct[k].target : k \in
                                {x \in 1..Len(colsMetaFromStruct) : colsMetaFromStruct[x].inline = "dynamic"}}
                         |-> <<>>])

\* The loop of parseColumnsMetaFromStructType over the fields of the record type
RECURSIVE structLoop(_, _, _, _)
structLoop(c, fs, i, acc) ==
    IF i > Len(fs) THEN [err |-> "", cols |-> acc]
    ELSE IF parseTag(fs[i]) # "" THEN [err |-> parseTag(fs[i]), cols |-> <<>>]
    ELSE IF fs[i].ignored THEN structLoop(c, fs, i + 1, acc)
    ELSE IF fs[i].inline
    THEN LET r == parseInlineColumn(c, fs[i], newDecodeColumnMeta(fs[i], i)) IN
         IF r.err # "" THEN [err |-> r.err, cols |-> <<>>]
         ELSE structLoop(c, fs, i + 1, acc \o r.cols)
    ELSE structLoop(c, fs, i + 1,
            Append(acc, localizeHeader(c,
                copyConfig(c, newDecodeColumnMeta(fs[i], i), fs[i].name, ""))))

Renumber(colsMeta) == [k \in 1..Len(colsMeta) |-> [colsMeta[k] EXCEPT !.column = k - 1]]

NoGroups == [t \in {} |-> <<>>]

HasDynamic(colsMeta) == \E k \in 1..Len(colsMeta) : colsMeta[k].inline = "dynamic"

HasFixed(colsMeta) == \E k \in 1..Len(colsMeta) : colsMeta[k].inline = "fixed"

\* parseColumnsMetaFromStructType, step by step; r is [err, cols, groups], and a
\* step passes an earlier error on.
structUnique(r) ==
    IF r.err # "" THEN r ELSE [r EXCEPT !.err = validateHeaderUniqueness(r.cols)]

structInlineConfig(c, fileHeader, r) ==
    IF r.err # "" \/ ~(HasDynamic(r.cols) \/ HasFixed(r.cols)) THEN r
    ELSE [r EXCEPT !.err = validateConfigOnInlineColumns(c, HasDynamic(r.cols), fileHeader)]

structDynamic(fileHeader, r) ==
    IF r.err # "" \/ ~HasDynamic(r.cols) THEN [err |-> r.err, cols |-> r.cols, groups |-> NoGroups]
    ELSE parseDynamicInlineColumns(r.cols, fileHeader)

structRenumber(r) ==
    IF r.err # "" THEN [err |-> r.err, cols |-> <<>>, groups |-> NoGroups]
    ELSE [r EXCEPT !.cols = Renumber(@)]

\* Decoder.parseColumnsMetaFromStructType: [err, cols, groups]
parseColumnsMetaFromStructType(c, itemType, fileHeader) ==
    structRenumber(structDynamic(fileHeader, structInlineConfig(c, fileHeader,
        structUnique(structLoop(c, StructFields(itemType), 1, <<>>)))))

(***************************************************************************)
(* Header Reconciler of the decoder: Decoder.parseColumnsMeta.             *)
(* A Reader outcome is [records, err]: err is "" for a row, or the error   *)
(* Read returned ("csv.ErrFieldCount", "csv.ErrQuote", "io.ErrUnexpected").*)
(***************************************************************************)
Max(S) == CHOOSE x \in S : \A y \in S : x >= y

\* the map headerText -> column: a later column replaces an earlier one
MapLookup(colsMeta, h) ==
    LET S == {k \in 1..Len(colsMeta) : colsMeta[k].headerText = h}
    IN  IF S = {} THEN 0 ELSE Max(S)

UnrecognizedColumnMeta(h) ==
    [column |-> 0, headerKey |-> h, headerText |-> h, parentKey |-> "",
     prefix |-> "", optional |-> FALSE, unrecognized |-> TRUE,
     omitempty |-> FALSE, stopOnError |-> FALSE, target |-> 0, subTarget |-> 0,
     inline |-> "none", kind |-> "", validatorFuncs |-> <<>>,
     trimSpace |-> FALSE, preprocessorFuncs |-> <<>>, inlinePtr |-> FALSE]

\* readFileHeader: [err, fileHeader, read]; read is the number of Read calls made
readFileHeader(c, rd) ==
    IF c.NoHeaderMode THEN [err |-> validateHeader(<<>>), fileHeader |-> <<>>, read |-> 0]
    ELSE IF Len(rd) = 0 THEN [err |-> "io.EOF", fileHeader |-> <<>>, read |-> 1]
    ELSE IF rd[1].err # "" THEN [err |-> rd[1].err, fileHeader |-> <<>>, read |-> 1]
    ELSE [err |-> validateHeader(rd[1].records), fileHeader |-> rd[1].records, read |-> 1]

\* the schema column a live name maps to, or the column made for an unrecognized name
LiveColumn(colsMetaFromStruct, h, m) ==
    IF m = 0 THEN UnrecognizedColumnMeta(h) ELSE colsMetaFromStruct[m]

\* the live columns: each live name with the schema column of that header text
LiveColumns(fileHeader, colsMetaFromStruct) ==
    [k \in 1..Len(fileHeader) |->
        [LiveColumn(colsMetaFromStruct, fileHeader[k], MapLookup(colsMetaFromStruct, fileHeader[k]))
            EXCEPT !.column = k - 1]]

HeaderTexts(colsMeta) == [k \in 1..Len(colsMeta) |-> colsMeta[k].headerText]

\* an order check that accepts every order
validateHeaderOrderLenient(colsMeta, colsMetaFromStruct) == ""

\* validateHeaderOrder
validateHeaderOrder(colsMeta, colsMetaFromStruct) ==
    IF HeaderTexts(SelectSeq(colsMeta, LAMBDA m : ~m.unrecognized))
        # HeaderTexts(SelectSeq(colsMetaFromStruct,
                LAMBDA m : ~(m.optional /\ MapLookup(colsMeta, m.headerText) = 0)))
    THEN "ErrHeaderColumnOrderInvalid" ELSE ""

\* validateColumnsMeta: every configured column exists, and the keys are unique
validateColumnsMeta(c, colsMeta, colsMetaFromStruct) ==
    IF \E colKey \in DOMAIN c.columnConfigMap :
            ~\E k \in 1..Len(colsMetaFromStruct) :
                colsMetaFromStruct[k].headerKey = colKey \/ colsMetaFromStruct[k].parentKey = colKey
    THEN "ErrConfigOptionInvalid"
    ELSE validateHeaderUniqueness(colsMeta)

\* Decoder.parseColumnsMeta, step by step. s is [err, done, fileHeader, read,
\* fromStruct, groups, colsMeta, unrecognizedColumns, missingOptionalColumns];
\* the two result lists are filled as the code fills them, also when a later
\* check fails; done says the headerless return was taken.
pcmStart(h) ==
    [err |-> h.err, done |-> FALSE, fileHeader |-> h.fileHeader, read |-> h.read,
     fromStruct |-> <<>>, groups |-> NoGroups, colsMeta |-> <<>>,
     unrecognizedColumns |-> <<>>, missingOptionalColumns |-> <<>>]

pcmSetStruct(s, r) == [s EXCEPT !.err = r.err, !.fromStruct = r.cols, !.groups = r.groups]

pcmFromStruct(c, itemType, s) ==
    IF s.err # "" THEN s
    ELSE pcmSetStruct(s, parseColumnsMetaFromStructType(c, itemType, s.fileHeader))

pcmHeaderless(s) ==
    IF s.err = "" /\ Len(s.fileHeader) = 0
    THEN [s EXCEPT !.colsMeta = s.fromStruct, !.done = TRUE]
    ELSE s

\* a reconciler that skips the unrecognized names whatever the configuration
pcmSetLiveAllows(c, s, colsMeta) ==
    [s EXCEPT !.colsMeta = colsMeta,
              !.unrecognizedColumns = HeaderTexts(SelectSeq(colsMeta, LAMBDA m : m.unrecognized))]

pcmSetLive(c, s, colsMeta) ==
    IF (\E k \in 1..Len(colsMeta) : colsMeta[k].unrecognized) /\ ~c.AllowUnrecognizedColumns
    THEN [s EXCEPT !.err = "ErrHeaderColumnUnrecognized"]
    ELSE [s EXCEPT !.colsMeta = colsMeta,
                   !.unrecognizedColumns = HeaderTexts(SelectSeq(colsMeta, LAMBDA m : m.unrecognized))]

pcmLive(c, s) ==
    IF s.err # "" \/ s.done THEN s
    ELSE pcmSetLive(c, s, LiveColumns(s.fileHeader, s.fromStruct))

\* a reconciler that takes every absent column for an optional one
pcmMissingLenient(s) ==
    IF s.err # "" \/ s.done THEN s
    ELSE [s EXCEPT !.missingOptionalColumns =
                        HeaderTexts(SelectSeq(s.fromStruct,
                            LAMBDA m : MapLookup(s.colsMeta, m.headerText) = 0))]

pcmMissing(s) ==
    IF s.err # "" \/ s.done THEN s
    ELSE LET absent(k) == MapLookup(s.colsMeta, s.fromStruct[k].headerText) = 0
             required == {k \in 1..Len(s.fromStruct) : absent(k) /\ ~s.fromStruct[k].optional}
             upTo == IF required = {} THEN Len(s.fromStruct) ELSE Min(required) - 1
         IN  [s EXCEPT !.err = IF required # {} THEN "ErrHeaderColumnRequired" ELSE "",
                       !.missingOptionalColumns =
                            HeaderTexts(SelectSeq(SubSeq(s.fromStruct, 1, upTo),
                                LAMBDA m : MapLookup(s.colsMeta, m.headerText) = 0))]

pcmOrder(c, s) ==
    IF s.err # "" \/ s.done \/ ~c.RequireColumnOrder THEN s
    ELSE [s EXCEPT !.err = validateHeaderOrder(s.colsMeta, s.fromStruct)]

pcmValidate(c, s) ==
    IF s.err # "" \/ s.done THEN s
    ELSE [s EXCEPT !.err = validateColumnsMeta(c, s.colsMeta, s.fromStruct)]

parseColumnsMeta(c, itemType, rd) ==
    pcmValidate(c, pcmOrder(c, pcmMissing(pcmLive(c, pcmHeaderless(
        pcmFromStruct(c, itemType, pcmStart(readFileHeader(c, rd))))))))

(***************************************************************************)
(* Typed Codec Dispatcher, decode side (decode.go).                        *)
(***************************************************************************)
\* strconv.ParseInt on the cell texts of the model
IntOfText == [t \in {"0", "1", "2", "3", "4", "5", "6"} |->
                CASE t = "0" -> 0 [] t = "1" -> 1 [] t = "2" -> 2 [] t = "3" -> 3
                  [] t = "4" -> 4 [] t = "5" -> 5 [] t = "6" -> 6]

\* getDecodeFunc: "" when the kind has a decode function
getDecodeFunc(kind) ==
    IF kind \in {"int", "*int", "ID", "string", "any"} THEN "" ELSE "ErrTypeUnsupported"

\* a value of an interface field: its dynamic type and, for an int or a string, the value
AnyNil == [type |-> "nil", int |-> 0, str |-> ""]

AnyInt(n) == [type |-> "int", int |-> n, str |-> ""]

AnyStr(t) == [type |-> "string", int |-> 0, str |-> t]

AnyMap == [type |-> "map", int |-> 0, str |-> ""]

\* a value of a pointer field: nil, or a pointer to an int
PtrNil == [nil |-> TRUE, v |-> 0]

PtrTo(n) == [nil |-> FALSE, v |-> n]

\* the decode function of a kind: [err, val, set]; set says that the function
\* wrote the field, and val is what it wrote. Kind "ID" is a named int type
\* with a MarshalCSV method and no unmarshal method: it decodes as an int.
\* decodePtrIntFunc allocates the pointee before it parses the text.
decodeFunc(kind, text) ==
    IF kind \in {"int", "ID"}
    THEN IF text \in DOMAIN IntOfText THEN [err |-> "", val |-> IntOfText[text], set |-> TRUE]
         ELSE [err |-> "ErrDecodeValueType", val |-> 0, set |-> FALSE]
    ELSE IF kind = "*int"
    THEN IF text \in DOMAIN IntOfText
         THEN [err |-> "", val |-> PtrTo(IntOfText[text]), set |-> TRUE]
         ELSE [err |-> "ErrDecodeValueType", val |-> PtrTo(0), set |-> TRUE]
    ELSE IF kind = "any" THEN [err |-> "", val |-> AnyStr(text), set |-> TRUE]
    ELSE [err |-> "", val |-> text, set |-> TRUE]

ZeroOf(kind) ==
    IF kind \in {"int", "ID"} THEN 0
    ELSE IF kind = "*int" THEN PtrNil
    ELSE IF kind = "any" THEN AnyNil
    ELSE ""

ZeroField(f) ==
    IF f.kind = "dynamic" THEN [Header |-> <<>>, Values |-> <<>>]
    ELSE IF f.kind = "fixed" THEN [j \in 1..Len(f.sub) |-> ZeroOf(f.sub[j].kind)]
    ELSE ZeroOf(f.kind)

\* the zero value of a record type
ZeroRecord(itemType) ==
    [i \in 1..Len(StructFields(itemType)) |-> ZeroField(StructFields(itemType)[i])]

\* Decoder.buildColumnDecoders
buildColumnDecoders(colsMeta) ==
    LET bad == {k \in 1..Len(colsMeta) :
                    ~colsMeta[k].unrecognized /\ getDecodeFunc(colsMeta[k].kind) # ""}
    IN  IF bad = {} THEN "" ELSE getDecodeFunc(colsMeta[Min(bad)].kind)

(***************************************************************************)
(* Row Engine of the decoder.                                              *)
(***************************************************************************)
\* readRowData: the loop over the Reader; row is the number of the next row
RECURSIVE readRowLoop(_, _, _, _, _)
\* a reading of the rows that fails on a row of incorrect structure whatever
\* the configuration
readRowLoopStrict(c, rd, k, row, acc) ==
    IF \E j \in k..Len(rd) : rd[j].err # ""
    THEN [err |-> "ErrDecodeRowFieldCount", rowsData |-> <<>>]
    ELSE [err |-> "", rowsData |-> acc \o [j \in 1..(Len(rd) - k + 1) |->
                [records |-> rd[k + j - 1].records, row |-> row + j - 1, err |-> ""]]]

readRowLoop(c, rd, k, row, acc) ==
    IF k > Len(rd) THEN [err |-> "", rowsData |-> acc]
    ELSE IF rd[k].err = ""
    THEN readRowLoop(c, rd, k + 1, row + 1,
                     Append(acc, [records |-> rd[k].records, row |-> row, err |-> ""]))
    ELSE IF rd[k].err \in {"csv.ErrFieldCount", "csv.ErrQuote"}
    THEN LET err == IF rd[k].err = "csv.ErrFieldCount" THEN "ErrDecodeRowFieldCount"
                    ELSE "ErrDecodeQuoteInvalid" IN
         IF c.TreatIncorrectStructureAsError \/ c.StopOnError
         THEN [err |-> err, rowsData |-> <<>>]
         ELSE readRowLoop(c, rd, k + 1, row + 1,
                          Append(acc, [records |-> <<>>, row |-> row, err |-> err]))
    ELSE [err |-> rd[k].err, rowsData |-> <<>>]

readRowData(c, rd) == readRowLoop(c, rd, 1, IF c.NoHeaderMode THEN 1 ELSE 2, <<>>)

\* ValidatorLT(val), ValidatorGTE(val) and ValidatorLTE(val) applied to an int:
\* "" when v passes
validatorFunc(vf, v) ==
    IF vf.op = "LT" THEN (IF v < vf.val THEN "" ELSE "ErrValidationLT")
    ELSE IF vf.op = "GTE" THEN (IF v >= vf.val THEN "" ELSE "ErrValidationGTE")
    ELSE IF v <= vf.val THEN "" ELSE "ErrValidationLTE"

\* ProcessorTrimPrefix(s, "x") on the cell texts of the model
ProcessorTrimPrefix(s) == IF s = "x" THEN "" ELSE s

\* a column whose preprocessors are never applied
preprocessNone(fns, k, s) == s

\* the cell text after the preprocessors of the column, applied in order
RECURSIVE preprocess(_, _, _)
preprocess(fns, k, s) ==
    IF k > Len(fns) THEN s
    ELSE preprocess(fns, k + 1,
            IF fns[k] = "ProcessorTrim" THEN TrimSpace(s) ELSE ProcessorTrimPrefix(s))

\* Decoder.validateParsedCell: the errors of the column's validators, in order;
\* the first error ends the loop when the decoder or the column stops on error
RECURSIVE validateParsedCell(_, _, _, _, _)
validateParsedCell(c, v, colMeta, k, errs) ==
    IF k > Len(colMeta.validatorFuncs) THEN errs
    ELSE IF validatorFunc(colMeta.validatorFuncs[k], v) = ""
    THEN validateParsedCell(c, v, colMeta, k + 1, errs)
    ELSE IF c.StopOnError \/ colMeta.stopOnError
    THEN Append(errs, validatorFunc(colMeta.validatorFuncs[k], v))
    ELSE validateParsedCell(c, v, colMeta, k + 1,
            Append(errs, validatorFunc(colMeta.validatorFuncs[k], v)))

\* handleCellError
handleCellError(err, value, colMeta) ==
    [NewCellError(err, colMeta.column, colMeta.headerText) EXCEPT !.value = value]

\* inlineColumnMeta.decodeGetColumnValue for a dynamic group held by value: the
\* first column of a row sets Header and a Values of the group's width
decodeInitInlineStruct(groups, colMeta, inlineStruct, cursor) ==
    IF cursor = -1
    THEN [Header |-> groups[colMeta.target],
          Values |-> [k \in 1..Len(groups[colMeta.target]) |-> ZeroOf(colMeta.kind)]]
    ELSE inlineStruct

\* inlineColumnMeta.decodeGetColumnValue, first step: a group held by pointer
\* is set to a new zero struct on every column, a group held by value is used
\* as it is
decodeInlineStruct(colMeta, held) ==
    IF colMeta.inline # "none" /\ colMeta.inlinePtr THEN ZeroField(fields[colMeta.target])
    ELSE held

\* the columns of one row, from column col on; st is [rowVal, cellErrs, shouldStop,
\* cursor, panicked]. A cell beyond the resolved columns indexes colsMeta out of
\* range, and a column of a dynamic group beyond its Values indexes the slice
\* out of range: the runtime panics and the row is left as far as it was written.
RECURSIVE decodeCells(_, _, _, _, _, _)
decodeCells(c, colsMeta, groups, records, col, st) ==
    IF col > Len(records) \/ st.panicked THEN st
    ELSE IF col > Len(colsMeta) THEN [st EXCEPT !.panicked = TRUE]
    ELSE LET colMeta == colsMeta[col] IN
        IF colMeta.unrecognized THEN decodeCells(c, colsMeta, groups, records, col + 1, st)
        ELSE
        LET cellText == preprocess(colMeta.preprocessorFuncs, 1,
                            IF c.TrimSpace \/ colMeta.trimSpace
                            THEN TrimSpace(records[col]) ELSE records[col])
            isDyn == colMeta.inline = "dynamic"
            cur == IF isDyn THEN st.cursor[colMeta.target] ELSE 0
            inlineStruct == IF isDyn
                            THEN decodeInitInlineStruct(groups, colMeta,
                                    decodeInlineStruct(colMeta, st.rowVal[colMeta.target]), cur)
                            ELSE decodeInlineStruct(colMeta, st.rowVal[colMeta.target])
            idx == IF cur = -1 THEN 1 ELSE cur + 1
            cursor1 == IF isDyn THEN [st.cursor EXCEPT ![colMeta.target] = idx] ELSE st.cursor
            doDecode == ~colMeta.omitempty \/ cellText # ""
            r == decodeFunc(colMeta.kind, cellText)
            written == doDecode /\ r.set
            field1 == IF ~written THEN inlineStruct
                      ELSE IF isDyn THEN [inlineStruct EXCEPT !.Values[idx] = r.val]
                      ELSE IF colMeta.inline = "fixed"
                      THEN [inlineStruct EXCEPT ![colMeta.subTarget] = r.val]
                      ELSE r.val
            failed == doDecode /\ r.err # ""
            outVal == IF isDyn THEN field1.Values[idx]
                      ELSE IF colMeta.inline = "fixed" THEN field1[colMeta.subTarget]
                      ELSE field1
            errs == IF failed THEN <<r.err>>
                    ELSE IF Len(colMeta.validatorFuncs) > 0
                    THEN validateParsedCell(c, outVal, colMeta, 1, <<>>)
                    ELSE <<>>
            stop == Len(errs) > 0 /\ (c.StopOnError \/ colMeta.stopOnError)
            added == IF stop THEN <<errs[1]>> ELSE errs
        IN  IF isDyn /\ idx > Len(inlineStruct.Values)
            THEN [st EXCEPT !.rowVal[colMeta.target] = inlineStruct, !.panicked = TRUE]
            ELSE
            decodeCells(c, colsMeta, groups, records, col + 1,
                [rowVal |-> [st.rowVal EXCEPT ![colMeta.target] = field1],
                 cellErrs |-> st.cellErrs \o
                              [k \in 1..Len(added) |-> handleCellError(added[k], records[col], colMeta)],
                 shouldStop |-> st.shouldStop \/ stop,
                 cursor |-> cursor1, panicked |-> FALSE])

\* a runtime panic leaves the call: no error value is returned
PanicErr == [kind |-> "panic", cause |-> "panic", row |-> 0, cells |-> <<>>, errs |-> <<>>]

\* Decoder.decodeRow: [rowVal, err, shouldStop]
rowResult(rowData, st) ==
    [rowVal |-> st.rowVal, shouldStop |-> st.shouldStop,
     err |-> IF st.panicked THEN PanicErr
             ELSE IF Len(st.cellErrs) > 0 THEN NewRowErrors(rowData.row, st.cellErrs)
             ELSE NilErr]

decodeRow(c, dd, rowData, rowVal) ==
    IF rowData.err # ""
    THEN [rowVal |-> rowVal, shouldStop |-> dd.shouldStop,
          err |-> NewRowErrors(rowData.row, <<NewCellError(rowData.err, -1, "")>>)]
    ELSE rowResult(rowData,
            decodeCells(c, dd.colsMeta, dd.groups, rowData.records, 1,
                [rowVal |-> rowVal, cellErrs |-> <<>>, shouldStop |-> dd.shouldStop,
                 cursor |-> [t \in DOMAIN dd.groups |-> -1], panicked |-> FALSE]))

(***************************************************************************)
(* Decoder session (decoder.go): Decode, DecodeOne, Finish.                *)
(* itemType "" is the nil item type of a decoder that has not prepared.    *)
(* An output variable is named by its Go type.                             *)
(***************************************************************************)
ChunkSize == 10000

NilResult ==
    [set |-> FALSE, totalRow |-> 0, unrecognizedColumns |-> <<>>, missingOptionalColumns |-> <<>>]

NewDecodeResult == [NilResult EXCEPT !.set = TRUE]

NewDecoder ==
    [err |-> NewErrors, result |-> NilResult, finished |-> FALSE, rowsData |-> <<>>,
     itemType |-> "", shouldStop |-> FALSE, colsMeta |-> <<>>, groups |-> NoGroups]

\* the variables a caller hands to Decode: "*Item" is a pointer to no slice
DecodeVars == {"*[]Item", "*[]*Item", "*[]Other", "*Item"}

\* Decoder.parseOutputVar: [err, itemType]
parseOutputVar(v) ==
    IF v = "*[]Item" THEN [err |-> "", itemType |-> "Item"]
    ELSE IF v = "*[]*Item" THEN [err |-> "", itemType |-> "*Item"]
    ELSE IF v = "*[]Other" THEN [err |-> "", itemType |-> "Other"]
    ELSE [err |-> "ErrTypeInvalid", itemType |-> ""]

\* the variables a caller hands to DecodeOne: "Item" is no pointer, "nil" is a
\* nil pointer to Item
DecodeOneVars == {"*Item", "*Other", "Item", "nil"}

\* Decoder.parseOutputVarOne: [err, itemType]
parseOutputVarOne(v) ==
    IF v = "Item" THEN [err |-> "ErrTypeInvalid", itemType |-> ""]
    ELSE IF v = "nil" THEN [err |-> "ErrValueNil", itemType |-> ""]
    ELSE [err |-> "", itemType |-> indirectType(v)]

\* Decoder.validateConfig
validateConfig(c) ==
    IF c.ParseLocalizedHeader /\ ~c.HasLocalizationFunc THEN "ErrConfigOptionInvalid" ELSE ""

\* Decoder.prepareDecode, step by step; p is [d, err, read]
prepSetType(d1, q) ==
    IF q.err # "" THEN [d |-> d1, err |-> q.err, read |-> 0]
    ELSE [d |-> [d1 EXCEPT !.itemType = q.itemType], err |-> "", read |-> 0]

prepOutputVar(dd, v) == prepSetType([dd EXCEPT !.result = NewDecodeResult], parseOutputVar(v))

prepConfig(c, p) == IF p.err # "" THEN p ELSE [p EXCEPT !.err = validateConfig(c)]

prepSetColumns(p, m) ==
    [d |-> [p.d EXCEPT !.result.unrecognizedColumns = m.unrecognizedColumns,
                       !.result.missingOptionalColumns = m.missingOptionalColumns,
                       !.colsMeta = IF m.err = "" THEN m.colsMeta ELSE <<>>,
                       !.groups = IF m.err = "" THEN m.groups ELSE NoGroups],
     err |-> m.err, read |-> m.read]

prepColumns(c, rd, p) ==
    IF p.err # "" THEN p ELSE prepSetColumns(p, parseColumnsMeta(c, p.d.itemType, rd))

prepDecoders(p) ==
    IF p.err # "" THEN p ELSE [p EXCEPT !.err = buildColumnDecoders(p.d.colsMeta)]

prepSetRows(c, p, rows) ==
    IF rows.err # "" THEN [p EXCEPT !.err = rows.err]
    ELSE [p EXCEPT !.d.rowsData = rows.rowsData,
                   !.d.result.totalRow = Len(rows.rowsData) + (IF c.NoHeaderMode THEN 0 ELSE 1),
                   !.d.err.totalRow = Len(rows.rowsData) + (IF c.NoHeaderMode THEN 0 ELSE 1),
                   !.d.err.header = @ \o HeaderTexts(p.d.colsMeta)]

prepRows(c, rd, p) ==
    IF p.err # "" THEN p
    ELSE prepSetRows(c, p, readRowData(c, SubSeq(rd, p.read + 1, Len(rd))))

prepareDecode(c, dd, v, rd) ==
    prepRows(c, rd, prepDecoders(prepColumns(c, rd, prepConfig(c, prepOutputVar(dd, v)))))

\* The loops of Decode; st is [d, outSlice, row, halt], halt the break of the
\* loop over a chunk.
\* a Decode that ends its loop at the first row with an error, whatever the
\* configuration
afterRowHalts(c, st, r) ==
    [d |-> [st.d EXCEPT !.err = IF r.err.kind # "nil" THEN ErrorsAdd(@, r.err) ELSE @,
                        !.shouldStop = r.shouldStop \/ r.err.kind # "nil"],
     outSlice |-> [st.outSlice EXCEPT ![st.row + 1] = r.rowVal],
     row |-> st.row + 1,
     halt |-> r.err.kind # "nil", panicked |-> r.err.kind = "panic"]

afterRow(c, st, r) ==
    IF r.err.kind = "panic"
    THEN [d |-> [st.d EXCEPT !.shouldStop = r.shouldStop],
          outSlice |-> [st.outSlice EXCEPT ![st.row + 1] = r.rowVal],
          row |-> st.row + 1, halt |-> TRUE, panicked |-> TRUE]
    ELSE
    [d |-> [st.d EXCEPT !.err = IF r.err.kind # "nil" THEN ErrorsAdd(@, r.err) ELSE @,
                        !.shouldStop = r.shouldStop \/ (r.err.kind # "nil" /\ c.StopOnError)],
     outSlice |-> [st.outSlice EXCEPT ![st.row + 1] = r.rowVal],
     row |-> st.row + 1,
     halt |-> r.err.kind # "nil" /\ (c.StopOnError \/ r.shouldStop), panicked |-> FALSE]

\* a chunk loop that goes on to the next row whatever the last one set
RECURSIVE decodeChunkOn(_, _, _, _)
decodeChunkOn(c, chunk, k, st) ==
    IF k > Len(chunk) THEN st
    ELSE decodeChunkOn(c, chunk, k + 1,
            afterRow(c, st, decodeRow(c, st.d, chunk[k], st.outSlice[st.row + 1])))

RECURSIVE decodeChunk(_, _, _, _)
decodeChunk(c, chunk, k, st) ==
    IF k > Len(chunk) \/ st.halt THEN st
    ELSE decodeChunk(c, chunk, k + 1,
            afterRow(c, st, decodeRow(c, st.d, chunk[k], st.outSlice[st.row + 1])))

takeChunk(c, st, chunkSz) ==
    decodeChunk(c, SubSeq(st.d.rowsData, 1, chunkSz), 1,
        [st EXCEPT !.d.rowsData = SubSeq(@, chunkSz + 1, Len(@)), !.halt = FALSE])

RECURSIVE decodeLoop(_, _)
decodeLoop(c, st) ==
    IF st.panicked \/ st.d.shouldStop \/ Len(st.d.rowsData) = 0 THEN st
    ELSE decodeLoop(c, takeChunk(c, st, Min({ChunkSize, Len(st.d.rowsData)})))

\* a Decode that hands the caller the rows it decoded although it returns an error
decodeReturnAssigns(st, callerSlice) ==
    [d |-> [st.d EXCEPT !.finished = (~HasError(st.d.err) /\ Len(st.d.rowsData) = 0)],
     dest |-> st.outSlice, result |-> st.d.result,
     err |-> IF HasError(st.d.err) THEN AsError(st.d.err) ELSE NilErr]

\* what a Decode call leaves: [d, dest, result, err]
decodeReturn(st, callerSlice) ==
    IF st.panicked
    THEN [d |-> st.d, dest |-> callerSlice, result |-> NilResult, err |-> PanicErr]
    ELSE IF HasError(st.d.err)
    THEN [d |-> st.d, dest |-> callerSlice, result |-> st.d.result, err |-> AsError(st.d.err)]
    ELSE [d |-> [st.d EXCEPT !.finished = (Len(st.d.rowsData) = 0)],
          dest |-> st.outSlice, result |-> st.d.result, err |-> NilErr]

decodeBody(c, dd, callerSlice) ==
    decodeReturn(decodeLoop(c,
        [d |-> dd, outSlice |-> [i \in 1..Len(dd.rowsData) |-> ZeroRecord(dd.itemType)],
         row |-> 0, halt |-> FALSE, panicked |-> FALSE]), callerSlice)

decodeRejected(dd, callerSlice, cause) ==
    [d |-> dd, dest |-> callerSlice, result |-> NilResult, err |-> PlainErr(cause)]

decodeFailed(d1, callerSlice) ==
    [d |-> d1, dest |-> callerSlice, result |-> NilResult, err |-> AsError(d1.err)]

\* a Decode whose failed preparation does not mark the session as failed
decodePreparedForgets(c, p, callerSlice) ==
    IF p.err # ""
    THEN decodeFailed([p.d EXCEPT !.err = ErrorsAdd(@, PlainErr(p.err))], callerSlice)
    ELSE decodeBody(c, p.d, callerSlice)

decodePrepared(c, p, callerSlice) ==
    IF p.err # ""
    THEN decodeFailed([p.d EXCEPT !.err = ErrorsAdd(@, PlainErr(p.err)), !.shouldStop = TRUE],
                      callerSlice)
    ELSE decodeBody(c, p.d, callerSlice)

decodeTyped(c, dd, q, callerSlice) ==
    IF q.err # "" THEN decodeRejected(dd, callerSlice, q.err)
    ELSE IF q.itemType # dd.itemType THEN decodeRejected(dd, callerSlice, "ErrTypeUnmatched")
    ELSE decodeBody(c, dd, callerSlice)

\* Decoder.Decode: [d, dest, result, err]
DecodeCall(c, dd, v, rd, callerSlice) ==
    IF dd.finished THEN decodeRejected(dd, callerSlice, "ErrFinished")
    ELSE IF dd.shouldStop THEN decodeRejected(dd, callerSlice, "ErrAlreadyFailed")
    ELSE IF dd.itemType = "" THEN decodePrepared(c, prepareDecode(c, dd, v, rd), callerSlice)
    ELSE decodeTyped(c, dd, parseOutputVar(v), callerSlice)

\* the slice variable DecodeOne prepares with: a new slice of the item type
sliceVarOf(itemType) == IF itemType = "Item" THEN "*[]Item" ELSE "*[]Other"

\* what a DecodeOne call leaves: [d, rowVal, err]; rowVal is the caller's record
oneRejected(dd, callerVal, cause) == [d |-> dd, rowVal |-> callerVal, err |-> PlainErr(cause)]

\* a DecodeOne that returns its row's error without recording it for Finish
oneAfterRowDrops(c, d1, r) ==
    [d |-> [d1 EXCEPT !.shouldStop = r.shouldStop \/ (r.err.kind # "nil" /\ c.StopOnError),
                      !.finished = (Len(d1.rowsData) = 0)],
     rowVal |-> r.rowVal, err |-> r.err]

oneAfterRow(c, d1, r) ==
    IF r.err.kind = "panic"
    THEN [d |-> [d1 EXCEPT !.shouldStop = r.shouldStop], rowVal |-> r.rowVal, err |-> PanicErr]
    ELSE
    [d |-> [d1 EXCEPT !.err = IF r.err.kind # "nil" THEN ErrorsAdd(@, r.err) ELSE @,
                      !.shouldStop = r.shouldStop \/ (r.err.kind # "nil" /\ c.StopOnError),
                      !.finished = (Len(d1.rowsData) = 0)],
     rowVal |-> r.rowVal, err |-> r.err]

oneRow(c, d1, rowVal, callerVal) ==
    IF Len(d1.rowsData) = 0
    THEN oneRejected([d1 EXCEPT !.finished = TRUE], callerVal, "ErrFinished")
    ELSE oneAfterRow(c, [d1 EXCEPT !.rowsData = Tail(@)],
                     decodeRow(c, d1, Head(d1.rowsData), rowVal))

onePrepared(c, p, rowVal, callerVal) ==
    IF p.err # ""
    THEN oneRejected([p.d EXCEPT !.err = ErrorsAdd(@, PlainErr(p.err)), !.shouldStop = TRUE],
                     callerVal, p.err)
    ELSE oneRow(c, p.d, rowVal, callerVal)

\* a DecodeOne that gives the session up when it rejects a record of another type
oneTypedGivesUp(c, dd, q, rd, callerVal) ==
    IF q.err # "" THEN oneRejected(dd, callerVal, q.err)
    ELSE IF dd.itemType = ""
    THEN onePrepared(c, prepareDecode(c, dd, sliceVarOf(q.itemType), rd),
                     ZeroRecord(q.itemType), callerVal)
    ELSE IF q.itemType # dd.itemType
    THEN oneRejected([dd EXCEPT !.shouldStop = TRUE], callerVal, "ErrTypeUnmatched")
    ELSE oneRow(c, dd, ZeroRecord(q.itemType), callerVal)

oneTyped(c, dd, q, rd, callerVal) ==
    IF q.err # "" THEN oneRejected(dd, callerVal, q.err)
    ELSE IF dd.itemType = ""
    THEN onePrepared(c, prepareDecode(c, dd, sliceVarOf(q.itemType), rd),
                     ZeroRecord(q.itemType), callerVal)
    ELSE IF q.itemType # dd.itemType THEN oneRejected(dd, callerVal, "ErrTypeUnmatched")
    ELSE oneRow(c, dd, ZeroRecord(q.itemType), callerVal)

\* Decoder.DecodeOne; the caller hands a pointer to a zero record of its type
DecodeOneCall(c, dd, v, rd, callerVal) ==
    IF dd.finished THEN oneRejected(dd, callerVal, "ErrFinished")
    ELSE IF dd.shouldStop THEN oneRejected(dd, callerVal, "ErrAlreadyFailed")
    ELSE oneTyped(c, dd, parseOutputVarOne(v), rd, callerVal)

\* a Finish that reports but leaves the session open
FinishCallLeavesOpen(dd) ==
    [d |-> dd, result |-> dd.result,
     err |-> IF HasError(dd.err) THEN AsError(dd.err) ELSE NilErr]

\* Decoder.Finish: [d, result, err]
FinishCall(dd) ==
    [d |-> [dd EXCEPT !.finished = TRUE], result |-> dd.result,
     err |-> IF HasError(dd.err) THEN AsError(dd.err) ELSE NilErr]

(***************************************************************************)
(* The calls of a decoder session.                                         *)
(***************************************************************************)
DecodeReturns(r, v) ==
    /\ d' = r.d
    /\ dest' = r.dest
    /\ ret' = [op |-> "Decode", v |-> v, isNil |-> FALSE, arg |-> <<>>, err |-> r.err, result |-> r.result]

Decode(v) ==
    /\ session = "decoder"
    /\ DecodeReturns(DecodeCall(cfg, d, v, input, dest), v)
    /\ hist' = [hist EXCEPT !.decodeCalled = TRUE]
    /\ UNCHANGED <<session, cfg, fields, input, one, e, out>>

DecodeOneReturns(r, v) ==
    /\ d' = r.d
    /\ one' = r.rowVal
    /\ ret' = [op |-> "DecodeOne", v |-> v, isNil |-> FALSE, arg |-> <<>>, err |-> r.err, result |-> NilResult]
    /\ hist' = [hist EXCEPT !.oneErrs = IF r.err.kind = "row" THEN Append(@, r.err) ELSE @]

DecodeOne(v) ==
    /\ session = "decoder"
    /\ DecodeOneReturns(DecodeOneCall(cfg, d, v, input, one), v)
    /\ UNCHANGED <<session, cfg, fields, input, dest, e, out>>

FinishReturns(r) ==
    /\ d' = r.d
    /\ ret' = [op |-> "Finish", v |-> "", isNil |-> FALSE, arg |-> <<>>, err |-> r.err, result |-> r.result]

Finish ==
    /\ session = "decoder"
    /\ FinishReturns(FinishCall(d))
    /\ UNCHANGED <<session, cfg, fields, input, dest, one, hist, e, out>>

DecodeStep == \E v \in DecodeVars : Decode(v)

DecodeOneStep == \E v \in DecodeOneVars : DecodeOne(v)

NextDecoder == DecodeStep \/ DecodeOneStep \/ Finish

(***************************************************************************)
(* Typed Codec Dispatcher, encode side (encode.go).                        *)
(***************************************************************************)
\* strconv.FormatInt on the integers of the model
IntText(n) ==
    CASE n = 0 -> "0" [] n = 1 -> "1" [] n = 2 -> "2" [] n = 3 -> "3"
      [] n = 4 -> "4" [] n = 5 -> "5" [] n = 6 -> "6"

\* getEncodeFunc: "" when the kind has an encode function
getEncodeFunc(kind) ==
    IF kind \in {"int", "*int", "ID", "string", "any"} THEN "" ELSE "ErrTypeUnsupported"

\* an encodeInt that writes the number whatever the tag says
encodeIntAlways(val, omitEmpty) == [err |-> "", text |-> IntText(val)]

\* encodeInt
encodeInt(val, omitEmpty) ==
    [err |-> "", text |-> IF val = 0 /\ omitEmpty THEN "" ELSE IntText(val)]

\* encodeInterface: the encode function of the dynamic type of the value
encodeInterface(val, omitEmpty) ==
    IF val.type = "nil" THEN [err |-> "", text |-> ""]
    ELSE IF val.type = "int" THEN encodeInt(val.int, omitEmpty)
    ELSE IF val.type = "string" THEN [err |-> "", text |-> val.str]
    ELSE [err |-> "ErrTypeUnsupported", text |-> ""]

\* encodePtrInt
encodePtrInt(val, omitEmpty) ==
    IF val.nil THEN [err |-> "", text |-> ""] ELSE encodeInt(val.v, omitEmpty)

\* the MarshalCSV method of the type ID writes # and the number
MarshalCSV(n) == "#" \o IntText(n)

\* encodeCSVMarshaler
encodeCSVMarshaler(val, omitEmpty) == [err |-> "", text |-> MarshalCSV(val)]

\* the encode function of a kind: [err, text]
encodeFunc(kind, val, omitEmpty) ==
    IF kind = "int" THEN encodeInt(val, omitEmpty)
    ELSE IF kind = "*int" THEN encodePtrInt(val, omitEmpty)
    ELSE IF kind = "ID" THEN encodeCSVMarshaler(val, omitEmpty)
    ELSE IF kind = "any" THEN encodeInterface(val, omitEmpty)
    ELSE [err |-> "", text |-> val]

(***************************************************************************)
(* Schema Resolver of the encoder (encoder.go). An input variable of       *)
(* Encode is [type, isNil, items]; an item is the sequence of its field    *)
(* values, and NilItem a nil pointer in a slice of pointers.               *)
(***************************************************************************)
NilItem == <<>>

\* Encoder.parseInputVar: [err, itemType]
parseInputVar(v) ==
    IF v.type \notin {"[]Item", "[]*Item", "[]Other"} THEN [err |-> "ErrTypeInvalid", itemType |-> ""]
    ELSE IF v.isNil THEN [err |-> "ErrValueNil", itemType |-> ""]
    ELSE IF v.type = "[]Item" THEN [err |-> "", itemType |-> "Item"]
    ELSE IF v.type = "[]*Item" THEN [err |-> "", itemType |-> "*Item"]
    ELSE [err |-> "", itemType |-> "Other"]

\* Encoder.validateConfig
encoderValidateConfig(c) ==
    IF c.LocalizeHeader /\ ~c.HasLocalizationFunc THEN "ErrConfigOptionInvalid" ELSE ""

newEncodeColumnMeta(f, i) ==
    [column |-> 0, headerKey |-> f.name, headerText |-> f.name, parentKey |-> "",
     prefix |-> f.prefix, omitEmpty |-> f.omitempty, skipColumn |-> FALSE, target |-> i,
     subTarget |-> 0, inline |-> "none", kind |-> f.kind]

\* encodeColumnMeta.copyConfig with cfg.columnConfigMap[key], falling back to the parent key
encoderCopyConfig(c, colMeta, key, parentKey) ==
    IF key \in DOMAIN c.columnConfigMap
    THEN [colMeta EXCEPT !.skipColumn = c.columnConfigMap[key].Skip]
    ELSE IF parentKey \in DOMAIN c.columnConfigMap
    THEN [colMeta EXCEPT !.skipColumn = c.columnConfigMap[parentKey].Skip]
    ELSE colMeta

\* encodeColumnMeta.localizeHeader
encoderLocalizeHeader(c, colMeta) ==
    IF c.LocalizeHeader THEN [colMeta EXCEPT !.headerText = Localize(colMeta.headerKey)]
    ELSE colMeta

\* the first row of the input: [valid, val]
firstRowValOf(v) ==
    IF Len(v.items) > 0 /\ v.items[1] # NilItem THEN [valid |-> TRUE, val |-> v.items[1]]
    ELSE [valid |-> FALSE, val |-> NilItem]

\* Encoder.parseInlineColumnDynamicType: one column per name of the group's Header
encoderParseInlineColumnDynamicType(c, inlineStruct, f, parent) ==
    [k \in 1..Len(inlineStruct.Header) |->
        encoderLocalizeHeader(c, encoderCopyConfig(c,
            [parent EXCEPT !.headerKey = parent.prefix \o inlineStruct.Header[k],
                           !.headerText = parent.prefix \o inlineStruct.Header[k],
                           !.parentKey = parent.headerKey,
                           !.inline = "dynamic",
                           !.kind = f.elem],
            parent.prefix \o inlineStruct.Header[k], parent.headerKey))]

\* Encoder.parseInlineColumnFixedType: one column per field of the inline
\* struct that is not ignored; the column takes neither the prefix nor the
\* omit-empty option of a tag
encoderFixedColumnMeta(c, parent, sf, j) ==
    encoderLocalizeHeader(c, encoderCopyConfig(c,
        [column |-> 0, headerKey |-> parent.prefix \o sf.name,
         headerText |-> parent.prefix \o sf.name, parentKey |-> parent.headerKey,
         prefix |-> "", omitEmpty |-> FALSE, skipColumn |-> FALSE, target |-> parent.target,
         subTarget |-> j, inline |-> "fixed", kind |-> sf.kind],
        parent.prefix \o sf.name, parent.headerKey))

RECURSIVE encoderFixedLoop(_, _, _, _, _)
encoderFixedLoop(c, sub, parent, j, acc) ==
    IF j > Len(sub) THEN [err |-> "", cols |-> acc]
    ELSE IF parseTag(sub[j]) # "" THEN [err |-> parseTag(sub[j]), cols |-> <<>>]
    ELSE IF sub[j].ignored THEN encoderFixedLoop(c, sub, parent, j + 1, acc)
    ELSE encoderFixedLoop(c, sub, parent, j + 1,
            Append(acc, encoderFixedColumnMeta(c, parent, sub[j], j)))

encoderParseInlineColumnFixedType(c, f, parent) ==
    IF f.kind # "fixed" THEN [err |-> "ErrHeaderDynamicTypeInvalid", cols |-> <<>>]
    ELSE encoderFixedLoop(c, f.sub, parent, 1, <<>>)

\* Encoder.parseInlineColumn: the dynamic shape needs a first row; the fixed
\* shape finds no tagged field in an InlineColumn[T] and no struct in any other kind
encoderParseInlineColumn(c, f, parent, firstRowVal) ==
    IF firstRowVal.valid /\ f.kind = "dynamic"
    THEN [err |-> "",
          cols |-> encoderParseInlineColumnDynamicType(c, firstRowVal.val[parent.target], f, parent)]
    ELSE inlineFixedOrInvalid(encoderParseInlineColumnFixedType(c, f, parent))

\* The loop of Encoder.parseColumnsMetaFromStructType over the fields
RECURSIVE encoderStructLoop(_, _, _, _, _)
encoderStructLoop(c, fs, i, acc, firstRowVal) ==
    IF i > Len(fs) THEN [err |-> "", cols |-> Renumber(acc)]
    ELSE IF parseTag(fs[i]) # "" THEN [err |-> parseTag(fs[i]), cols |-> <<>>]
    ELSE IF fs[i].ignored THEN encoderStructLoop(c, fs, i + 1, acc, firstRowVal)
    ELSE IF fs[i].inline
    THEN IF encoderParseInlineColumn(c, fs[i], newEncodeColumnMeta(fs[i], i), firstRowVal).err # ""
         THEN [err |-> "ErrHeaderDynamicTypeInvalid", cols |-> <<>>]
         ELSE encoderStructLoop(c, fs, i + 1,
                acc \o encoderParseInlineColumn(c, fs[i], newEncodeColumnMeta(fs[i], i), firstRowVal).cols,
                firstRowVal)
    ELSE encoderStructLoop(c, fs, i + 1,
            Append(acc, encoderLocalizeHeader(c,
                encoderCopyConfig(c, newEncodeColumnMeta(fs[i], i), fs[i].name, ""))),
            firstRowVal)

\* Encoder.validateColumnsMeta
encoderValidateColumnsMeta(c, colsMeta) ==
    IF \E colKey \in DOMAIN c.columnConfigMap :
            ~\E k \in 1..Len(colsMeta) :
                colsMeta[k].headerKey = colKey \/ colsMeta[k].parentKey = colKey
    THEN "ErrConfigOptionInvalid"
    ELSE validateHeaderUniqueness(colsMeta)

encoderCheckColumns(c, r) ==
    IF r.err # "" THEN r
    ELSE IF encoderValidateColumnsMeta(c, r.cols) # ""
    THEN [err |-> encoderValidateColumnsMeta(c, r.cols), cols |-> <<>>]
    ELSE r

\* Encoder.parseColumnsMeta: [err, cols]
encoderParseColumnsMeta(c, itemType, v) ==
    encoderCheckColumns(c, encoderStructLoop(c, StructFields(itemType), 1, <<>>, firstRowValOf(v)))

\* Encoder.buildColumnEncoders
\* a build of the column encoders that finds an encode function for every kind
buildColumnEncodersAny(colsMeta) == ""

buildColumnEncoders(colsMeta) ==
    LET bad == {k \in 1..Len(colsMeta) : getEncodeFunc(colsMeta[k].kind) # ""}
    IN  IF bad = {} THEN "" ELSE getEncodeFunc(colsMeta[Min(bad)].kind)

(***************************************************************************)
(* Encoder session (encoder.go): Encode, EncodeOne, Finish.                *)
(* The Writer is [out, budget, err]: out the rows it has accepted, budget  *)
(* how many more Write calls of the running call succeed, err what the     *)
(* last Write returned. A panic unwinds the call: err is "panic".          *)
(***************************************************************************)
NewEncoder ==
    [err |-> "", finished |-> FALSE, itemType |-> "", headerWritten |-> FALSE, colsMeta |-> <<>>]

\* Writer.Write
Write(w, record) ==
    IF w.budget = 0 THEN [w EXCEPT !.err = "io.ErrShortWrite"]
    ELSE [out |-> Append(w.out, record), budget |-> w.budget - 1, err |-> ""]

\* Encoder.encodeHeader: [e, err, w]
encodeHeaderWrite(e1, w1) ==
    [e |-> [e1 EXCEPT !.headerWritten = (w1.err = "")], err |-> w1.err, w |-> w1]

\* an encodeHeader that writes the header row in every mode
encodeHeaderRecordAlways(c, e1, w, record) ==
    IF validateHeader(record) # "" THEN [e |-> e1, err |-> validateHeader(record), w |-> w]
    ELSE encodeHeaderWrite(e1, Write(w, record))

encodeHeaderRecord(c, e1, w, record) ==
    IF validateHeader(record) # "" THEN [e |-> e1, err |-> validateHeader(record), w |-> w]
    ELSE IF c.NoHeaderMode THEN [e |-> [e1 EXCEPT !.headerWritten = TRUE], err |-> "", w |-> w]
    ELSE encodeHeaderWrite(e1, Write(w, record))

encodeHeader(c, e1, w) ==
    IF e1.headerWritten THEN [e |-> e1, err |-> "ErrUnexpected", w |-> w]
    ELSE encodeHeaderRecord(c, e1, w,
            HeaderTexts(SelectSeq(e1.colsMeta, LAMBDA m : ~m.skipColumn)))

\* Encoder.prepareEncode, step by step; p is [e, err, w]
encSetType(e1, w, q) ==
    IF q.err # "" THEN [e |-> e1, err |-> q.err, w |-> w]
    ELSE [e |-> [e1 EXCEPT !.itemType = q.itemType], err |-> "", w |-> w]

encInputVar(e1, v, w) ==
    IF e1.itemType # "" THEN [e |-> e1, err |-> "ErrUnexpected", w |-> w]
    ELSE encSetType(e1, w, parseInputVar(v))

encConfig(c, p) == IF p.err # "" THEN p ELSE [p EXCEPT !.err = encoderValidateConfig(c)]

encSetColumns(p, r) ==
    IF r.err # "" THEN [p EXCEPT !.err = r.err] ELSE [p EXCEPT !.e.colsMeta = r.cols]

encColumns(c, v, p) ==
    IF p.err # "" THEN p ELSE encSetColumns(p, encoderParseColumnsMeta(c, p.e.itemType, v))

encEncoders(p) ==
    IF p.err # "" THEN p ELSE [p EXCEPT !.err = buildColumnEncoders(p.e.colsMeta)]

encHeader(c, p) == IF p.err # "" THEN p ELSE encodeHeader(c, p.e, p.w)

prepareEncode(c, e1, v, w) ==
    encHeader(c, encEncoders(encColumns(c, v, encConfig(c, encInputVar(e1, v, w)))))

\* encodeColumnMeta.getColumnValue and the encode function, column by column;
\* acc is [record, err, cursor]: cursor the columnCurrIndex of each dynamic group.
\* Field on a pointer value and an index past the end of Values panic.
encodeCell(colMeta, rowVal, isPtr, acc) ==
    IF isPtr THEN [acc EXCEPT !.err = "panic"]
    ELSE IF colMeta.inline = "dynamic"
    THEN IF acc.cursor[colMeta.target] + 1 > Len(rowVal[colMeta.target].Values)
         THEN [acc EXCEPT !.err = "panic"]
         ELSE [record |-> Append(acc.record,
                    encodeFunc(colMeta.kind,
                        rowVal[colMeta.target].Values[acc.cursor[colMeta.target] + 1],
                        colMeta.omitEmpty).text),
               err |-> encodeFunc(colMeta.kind,
                        rowVal[colMeta.target].Values[acc.cursor[colMeta.target] + 1],
                        colMeta.omitEmpty).err,
               cursor |-> [acc.cursor EXCEPT ![colMeta.target] = @ + 1]]
    ELSE IF colMeta.inline = "fixed"
    THEN [record |-> Append(acc.record,
                encodeFunc(colMeta.kind, rowVal[colMeta.target][colMeta.subTarget],
                           colMeta.omitEmpty).text),
          err |-> encodeFunc(colMeta.kind, rowVal[colMeta.target][colMeta.subTarget],
                             colMeta.omitEmpty).err,
          cursor |-> acc.cursor]
    ELSE [record |-> Append(acc.record,
                encodeFunc(colMeta.kind, rowVal[colMeta.target], colMeta.omitEmpty).text),
          err |-> encodeFunc(colMeta.kind, rowVal[colMeta.target], colMeta.omitEmpty).err,
          cursor |-> acc.cursor]

RECURSIVE encodeCells(_, _, _, _, _)
encodeCells(colsMeta, rowVal, isPtr, k, acc) ==
    IF k > Len(colsMeta) \/ acc.err # "" THEN acc
    ELSE IF colsMeta[k].skipColumn THEN encodeCells(colsMeta, rowVal, isPtr, k + 1, acc)
    ELSE encodeCells(colsMeta, rowVal, isPtr, k + 1, encodeCell(colsMeta[k], rowVal, isPtr, acc))

\* Encoder.encodeRow: the Writer after the row, err the error of the row
encodeRowWrite(w, acc) ==
    IF acc.err # "" THEN [w EXCEPT !.err = acc.err] ELSE Write(w, acc.record)

encodeRow(colsMeta, rowVal, isPtr, w) ==
    encodeRowWrite(w, encodeCells(colsMeta, rowVal, isPtr, 1,
        [record |-> <<>>, err |-> "",
         cursor |-> [t \in {colsMeta[k].target : k \in 1..Len(colsMeta)} |-> 0]]))

\* The loop of Encode over the items; st is [e, w, err]
encAfterRow(st, w1) ==
    IF w1.err = "panic" THEN [e |-> st.e, w |-> w1, err |-> "panic"]
    ELSE IF w1.err # "" THEN [e |-> [st.e EXCEPT !.err = w1.err], w |-> w1, err |-> w1.err]
    ELSE [st EXCEPT !.w = w1]

RECURSIVE encodeRows(_, _, _)
encodeRows(items, row, st) ==
    IF row > Len(items) \/ st.err # "" THEN st
    ELSE IF st.e.itemType = "*Item" /\ items[row] = NilItem THEN encodeRows(items, row + 1, st)
    ELSE encodeRows(items, row + 1,
            encAfterRow(st, encodeRow(st.e.colsMeta, items[row], FALSE, st.w)))

\* what an Encode or EncodeOne call leaves: [e, out, err]
encodeReturn(st) ==
    [e |-> st.e, out |-> st.w.out,
     err |-> IF st.err = "panic" THEN PanicErr ELSE OfCause(st.e.err)]

encodeRejected(e1, w, cause) == [e |-> e1, out |-> w.out, err |-> PlainErr(cause)]

encodeBody(e1, v, w) == encodeReturn(encodeRows(v.items, 1, [e |-> e1, w |-> w, err |-> ""]))

encodePrepared(p, v) ==
    IF p.err # "" THEN encodeRejected([p.e EXCEPT !.err = p.err], p.w, p.err)
    ELSE encodeBody(p.e, v, p.w)

encodeTyped(e1, v, q, w) ==
    IF q.err # "" THEN encodeRejected(e1, w, q.err)
    ELSE IF q.itemType # e1.itemType THEN encodeRejected(e1, w, "ErrTypeUnmatched")
    ELSE encodeBody(e1, v, w)

\* Encoder.Encode
EncodeCall(c, e1, v, w) ==
    IF e1.finished THEN encodeRejected(e1, w, "ErrFinished")
    ELSE IF e1.err # "" THEN encodeRejected(e1, w, "ErrAlreadyFailed")
    ELSE IF e1.itemType = "" THEN encodePrepared(prepareEncode(c, e1, v, w), v)
    ELSE encodeTyped(e1, v, parseInputVar(v), w)

\* Encoder.EncodeOne; an argument is [type, val]
isKindOrPtrOfStruct(t) == t \in {"Item", "*Item", "Other"}

encodeOneRow(e1, v, w) ==
    encodeReturn(encAfterRow([e |-> e1, w |-> w, err |-> ""],
                             encodeRow(e1.colsMeta, v.val, v.type = "*Item", w)))

encodeOnePrepared(p, v) ==
    IF p.err # "" THEN encodeRejected([p.e EXCEPT !.err = p.err], p.w, p.err)
    ELSE encodeOneRow(p.e, v, p.w)

EncodeOneCall(c, e1, v, w) ==
    IF e1.finished THEN encodeRejected(e1, w, "ErrFinished")
    ELSE IF e1.err # "" THEN encodeRejected(e1, w, "ErrAlreadyFailed")
    ELSE IF ~isKindOrPtrOfStruct(v.type) THEN encodeRejected(e1, w, "ErrTypeInvalid")
    ELSE IF e1.itemType = ""
    THEN encodeOnePrepared(
            prepareEncode(c, e1, [type |-> "[]" \o v.type, isNil |-> FALSE, items |-> <<v.val>>], w), v)
    ELSE IF v.type # e1.itemType THEN encodeRejected(e1, w, "ErrTypeUnmatched")
    ELSE encodeOneRow(e1, v, w)

(***************************************************************************)
(* The calls of an encoder session. Every call meets a Writer that accepts *)
(* some number of its rows and fails the next one, or accepts them all.    *)
(***************************************************************************)
EncodeReturns(r, op, v, isNil, arg) ==
    /\ Len(r.out) <= MaxOut
    /\ e' = r.e
    /\ out' = r.out
    /\ ret' = [op |-> op, v |-> v.type, isNil |-> isNil, arg |-> arg, err |-> r.err,
                result |-> NilResult]

Encode(v, budget) ==
    /\ session = "encoder"
    /\ EncodeReturns(EncodeCall(cfg, e, v, [out |-> out, budget |-> budget, err |-> ""]),
                     "Encode", v, v.isNil, v.items)
    /\ UNCHANGED <<session, cfg, fields, input, d, dest, one, hist>>

EncodeOne(v, budget) ==
    /\ session = "encoder"
    /\ EncodeReturns(EncodeOneCall(cfg, e, v, [out |-> out, budget |-> budget, err |-> ""]),
                     "EncodeOne", v, FALSE, <<v.val>>)
    /\ UNCHANGED <<session, cfg, fields, input, d, dest, one, hist>>

\* Encoder.Finish
EncoderFinish ==
    /\ session = "encoder"
    /\ e' = [e EXCEPT !.finished = TRUE]
    /\ ret' = [op |-> "Finish", v |-> "", isNil |-> FALSE, arg |-> <<>>, err |-> OfCause(e.err),
                result |-> NilResult]
    /\ UNCHANGED <<session, cfg, fields, input, d, dest, one, hist, out>>

\* the items of the sessions
SessionItems == {<<1, 2>>, <<3, 4>>}

EncodeVars ==
    {[type |-> "[]Item", isNil |-> FALSE, items |-> s] : s \in SeqsUpTo(SessionItems, MaxItems)}
    \cup {[type |-> "[]*Item", isNil |-> FALSE, items |-> s] :
            s \in {<<NilItem, <<1, 2>>>>, <<<<3, 4>>>>}}
    \cup {[type |-> "[]Other", isNil |-> FALSE, items |-> <<<<0, 0>>>>],
          [type |-> "[]Item", isNil |-> TRUE, items |-> <<>>],
          [type |-> "Item", isNil |-> FALSE, items |-> <<>>]}

EncodeOneVars ==
    {[type |-> "Item", val |-> x] : x \in SessionItems}
    \cup {[type |-> "*Item", val |-> <<1, 2>>],
          [type |-> "Other", val |-> <<0, 0>>],
          [type |-> "int", val |-> <<>>]}

EncodeStep == \E v \in EncodeVars, budget \in 0..(MaxItems + 1) : Encode(v, budget)

EncodeOneStep == \E v \in EncodeOneVars, budget \in 0..(MaxItems + 1) : EncodeOne(v, budget)

NextEncoder == EncodeStep \/ EncodeOneStep \/ EncoderFinish

(***************************************************************************)
(* Sessions. A decoder session is a configuration, the fields of Item and  *)
(* the rows its Reader yields; an encoder session a configuration and the  *)
(* fields of Item.                                                         *)
(***************************************************************************)
NoColumnConfig ==
    [k \in {} |-> [StopOnError |-> FALSE, Skip |-> FALSE, ValidatorFuncs |-> <<>>,
                   TrimSpace |-> FALSE, PreprocessorFuncs |-> <<>>]]

defaultDecodeConfig ==
    [NoHeaderMode |-> FALSE, StopOnError |-> TRUE, TrimSpace |-> FALSE,
     RequireColumnOrder |-> TRUE, ParseLocalizedHeader |-> FALSE,
     HasLocalizationFunc |-> FALSE, AllowUnrecognizedColumns |-> FALSE,
     TreatIncorrectStructureAsError |-> TRUE, columnConfigMap |-> NoColumnConfig]

defaultEncodeConfig ==
    [NoHeaderMode |-> FALSE, LocalizeHeader |-> FALSE, HasLocalizationFunc |-> FALSE,
     columnConfigMap |-> NoColumnConfig]

\* what the Reader yields for a row
Row(records) == [records |-> records, err |-> ""]

\* what the Reader yields for a row it cannot read
BadRow(err) == [records |-> <<>>, err |-> err]

NoCall ==
    [op |-> "", v |-> "", isNil |-> FALSE, arg |-> <<>>, err |-> NilErr, result |-> NilResult]

\* the slice the caller's destination holds before the first Decode
OldSlice == <<<<4, 4>>>>

SessionStart(s, c, fs, in) ==
    /\ session = s
    /\ cfg = c
    /\ fields = fs
    /\ input = in
    /\ d = NewDecoder
    /\ dest = OldSlice
    /\ one = <<>>
    /\ ret = NoCall
    /\ hist = [oneErrs |-> <<>>, decodeCalled |-> FALSE]
    /\ e = NewEncoder
    /\ out = <<>>

SessionFields == <<Col("a", FALSE, "int"), Col("b", TRUE, "int")>>

SessionRows ==
    {Row(<<"1", "2">>), Row(<<"3", "x">>), BadRow("csv.ErrFieldCount"), BadRow("io.ErrUnexpectedEOF")}

InitDecoder ==
    \E stop \in BOOLEAN, noHeader \in BOOLEAN,
       header \in {<<"a", "b">>, <<"a", "x">>},
       rows \in SeqsUpTo(SessionRows, MaxRows) :
        SessionStart("decoder",
            [defaultDecodeConfig EXCEPT !.StopOnError = stop, !.NoHeaderMode = noHeader,
                                        !.TreatIncorrectStructureAsError = stop],
            SessionFields,
            IF noHeader THEN rows ELSE <<Row(header)>> \o rows)

EncoderSchemas ==
    {<<Col("a", FALSE, "int"), Col("b", FALSE, "int")>>,
     <<Col("a", FALSE, "int"), Col("b", FALSE, "map")>>}

InitEncoder ==
    \E noHeader \in BOOLEAN, fs \in EncoderSchemas :
        SessionStart("encoder", [defaultEncodeConfig EXCEPT !.NoHeaderMode = noHeader], fs, <<>>)

Init == InitDecoder \/ InitEncoder

\* The sessions of the header reconciler: a schema, a live header over a small
\* alphabet of names, and one data row whose cell under live position k is k.
HeaderSchemas ==
    {<<Col("a", FALSE, "int"), Col("b", TRUE, "int"), Col("c", FALSE, "int")>>,
     <<Col("a", FALSE, "int"), Dyn("g", "int"), Col("b", FALSE, "int")>>,
     <<Col("a", FALSE, "int"), Dyn("g", "int"), Col("b", TRUE, "int"), Col("c", TRUE, "int")>>}

HeaderNames == {"a", "b", "c", "x", "y"}

LiveHeaders == UNION {[1..k -> HeaderNames] : k \in 1..MaxHdr}

PositionRow(n) == Row([k \in 1..n |-> IntText(k)])

InitHeader ==
    \E allow \in BOOLEAN, order \in BOOLEAN, fs \in HeaderSchemas, header \in LiveHeaders :
        SessionStart("decoder",
            [defaultDecodeConfig EXCEPT !.AllowUnrecognizedColumns = allow,
                                        !.RequireColumnOrder = order],
            fs, <<Row(header), PositionRow(Len(header))>>)

Next == NextDecoder \/ NextEncoder

Spec == Init /\ [][Next]_vars

\* the calls of a header session: the caller's variables have the type of Item
NextHeader == Decode("*[]Item") \/ DecodeOne("*Item") \/ Finish

SpecHeader == InitHeader /\ [][NextHeader]_vars

\* The sessions of the inline-group configuration: every setting of the options
\* the inline check reads, a record type with a dynamic group, with a fixed
\* group or with none, and a live header.
ConfigSchemas ==
    {<<Col("a", FALSE, "int"), Dyn("g", "int"), Col("b", FALSE, "int")>>,
     <<Col("a", FALSE, "int"),
       Fixed("f", "", <<Col("p", FALSE, "int"), Col("q", FALSE, "int")>>)>>,
     <<Col("a", FALSE, "int"), Col("b", FALSE, "int")>>}

ConfigHeaders ==
    {<<"a", "y", "b">>, <<"x", "y", "b">>, <<"a", "p", "q">>, <<"a", "b">>, <<"a", "a">>}

InitConfig ==
    \E noHeader \in BOOLEAN, order \in BOOLEAN, allow \in BOOLEAN,
       localized \in BOOLEAN, hasFunc \in BOOLEAN,
       fs \in ConfigSchemas, header \in ConfigHeaders :
        SessionStart("decoder",
            [defaultDecodeConfig EXCEPT !.NoHeaderMode = noHeader,
                                        !.RequireColumnOrder = order,
                                        !.AllowUnrecognizedColumns = allow,
                                        !.ParseLocalizedHeader = localized,
                                        !.HasLocalizationFunc = hasFunc],
            fs,
            IF noHeader THEN <<PositionRow(Len(header))>>
            ELSE <<Row(header), PositionRow(Len(header))>>)

SpecConfig == InitConfig /\ [][NextHeader]_vars

\* The sessions of the error tree: an Errors, held by d.err, is built by Add
\* calls on it and on the RowErrors it holds.
MaxMembers == 3
MaxCells == 2

ErrTest == PlainErr("errTest")

ErrCell == NewCellError("ErrDecodeValueType", 0, "a")

InitErrors == SessionStart("errors", defaultDecodeConfig, <<>>, <<>>)

ErrorsReturns(errors, op) ==
    /\ d' = [d EXCEPT !.err = errors]
    /\ ret' = [NoCall EXCEPT !.op = op]
    /\ UNCHANGED <<session, cfg, fields, input, dest, one, hist, e, out>>

\* Errors.Add of an error that is no RowErrors: a sentinel error or a CellError
ErrorsAddCommon(m) ==
    /\ session = "errors" /\ Len(d.err.errs) < MaxMembers
    /\ ErrorsReturns(ErrorsAdd(d.err, m), "Errors.Add")

\* Errors.Add of a new RowErrors
ErrorsAddRow ==
    /\ session = "errors" /\ Len(d.err.errs) < MaxMembers
    /\ ErrorsReturns(ErrorsAdd(d.err, NewRowErrors(Len(d.err.errs) + 1, <<>>)), "Errors.Add")

\* RowErrors.Add on the RowErrors that is member i of the Errors
RowAdd(i, m) ==
    /\ session = "errors" /\ i \in 1..Len(d.err.errs)
    /\ IsRowErrors(d.err.errs[i]) /\ Len(d.err.errs[i].cells) < MaxCells
    /\ ErrorsReturns([d.err EXCEPT !.errs[i] = RowErrorsAdd(@, m)], "RowErrors.Add")

NextErrors ==
    \/ \E m \in {ErrTest, ErrCell} : ErrorsAddCommon(m)
    \/ ErrorsAddRow
    \/ \E i \in 1..MaxMembers, m \in {ErrTest, ErrCell} : RowAdd(i, m)

SpecErrors == InitErrors /\ [][NextErrors]_vars

\* The sessions of the row engine: a record type of two int columns, the
\* options that decide what an error does, validators or a stop-on-error on a
\* column, and rows that decode, that fail in one or two cells, in one or two
\* checks of a cell, that are short or long, or that the Reader cannot read.
MaxRowsIn == 2

RowFields == <<Col("a", FALSE, "int"), Col("b", FALSE, "int")>>

ColumnConfig(key, stop, vfs) ==
    [k \in {key} |-> [StopOnError |-> stop, Skip |-> FALSE, ValidatorFuncs |-> vfs,
                   TrimSpace |-> FALSE, PreprocessorFuncs |-> <<>>]]

RowConfigs ==
    {NoColumnConfig,
     ColumnConfig("a", FALSE, <<[op |-> "LT", val |-> 3], [op |-> "LTE", val |-> 4]>>),
     ColumnConfig("b", TRUE, <<>>)}

RowInputs ==
    {Row(<<"1", "2">>), Row(<<"x", "2">>), Row(<<"1", "x">>), Row(<<"x", "y">>),
     Row(<<"5", "x">>), Row(<<"3", "2">>), Row(<<"1">>), Row(<<"1", "2", "3">>),
     BadRow("csv.ErrFieldCount"), BadRow("csv.ErrQuote")}

InitRows ==
    \E stop \in BOOLEAN, treat \in BOOLEAN, noHeader \in BOOLEAN,
       cc \in RowConfigs, rows \in SeqsUpTo(RowInputs, MaxRowsIn) :
        SessionStart("decoder",
            [defaultDecodeConfig EXCEPT !.StopOnError = stop,
                                        !.TreatIncorrectStructureAsError = treat,
                                        !.NoHeaderMode = noHeader,
                                        !.columnConfigMap = cc],
            RowFields,
            IF noHeader THEN rows ELSE <<Row(<<"a", "b">>)>> \o rows)

SpecRows == InitRows /\ [][NextHeader]_vars

\* The sessions of the value kinds: a record type whose second column is an
\* int, an open (any) column, or a map, required or optional, decoded from a
\* header with or without that column, or encoded from items whose open
\* column holds nil, an int or a map.
OmitEmpty(f) == [f EXCEPT !.omitempty = TRUE]

KindSchemas ==
    {<<Col("a", FALSE, "int"), Col("m", FALSE, "map")>>,
     <<Col("a", FALSE, "int"), Col("m", TRUE, "map")>>}
    \cup {<<Col("a", FALSE, "int"), Col("m", FALSE, kind)>> : kind \in {"int", "*int", "any", "ID"}}
    \cup {<<Col("a", FALSE, "int"), OmitEmpty(Col("m", FALSE, kind))>> :
                kind \in {"int", "*int", "any", "ID"}}

\* the data row of a decoder session: the cell of column m decodes, is empty,
\* or does not decode
KindRow(header, cell) == IF Len(header) = 2 THEN Row(<<"1", cell>>) ELSE Row(<<"1">>)

InitKinds ==
    \E fs \in KindSchemas, noHeader \in BOOLEAN, stop \in BOOLEAN :
        \/ \E header \in {<<"a", "m">>, <<"a">>}, cell \in {"2", "", "x"} :
                SessionStart("decoder",
                    [defaultDecodeConfig EXCEPT !.NoHeaderMode = noHeader, !.StopOnError = stop],
                    fs,
                    IF noHeader THEN <<KindRow(header, cell)>>
                    ELSE <<Row(header), KindRow(header, cell)>>)
        \/ /\ stop
           /\ SessionStart("encoder", [defaultEncodeConfig EXCEPT !.NoHeaderMode = noHeader],
                           fs, <<>>)

\* the items of a session: the second field holds a value of its type
KindItems ==
    IF fields[2].kind = "any" THEN {<<1, AnyNil>>, <<1, AnyInt(0)>>, <<1, AnyInt(2)>>, <<1, AnyMap>>}
    ELSE IF fields[2].kind = "map" THEN {<<1, AnyMap>>}
    ELSE IF fields[2].kind = "*int" THEN {<<1, PtrNil>>, <<1, PtrTo(0)>>, <<1, PtrTo(2)>>}
    ELSE {<<1, 0>>, <<1, 2>>}

NextKinds ==
    \/ NextHeader
    \/ \E s \in SeqsUpTo(KindItems, MaxItems), budget \in {0, MaxItems + 1} :
            Encode([type |-> "[]Item", isNil |-> FALSE, items |-> s], budget)
    \/ \E x \in KindItems, budget \in {0, MaxItems + 1} :
            EncodeOne([type |-> "Item", val |-> x], budget)
    \/ EncoderFinish

SpecKinds == InitKinds /\ [][NextKinds]_vars

\* The sessions of the inline groups: a record type with a dynamic or a fixed
\* group, with or without a prefix, or with an ignored field. A decoder
\* session reads a header that names the columns of the record type and up to
\* MaxGroupRows data rows; the program may then encode what Decode returned
\* with a new Encoder. An encoder session encodes items of the record type.
MaxGroupRows == 2

Prefixed(f, prefix) == [f EXCEPT !.prefix = prefix]

Ignored(f) == [f EXCEPT !.ignored = TRUE]

MarkFields == <<Col("p", FALSE, "int"), Col("q", FALSE, "string")>>

\* a decoder session of the groups: [fields, header, rows]
GroupInput(fs, header, rows) == [fields |-> fs, header |-> header, rows |-> rows]

GroupInputs ==
    {GroupInput(<<Col("a", FALSE, "int"), Dyn("g", "int")>>, <<"a", "m", "n">>,
                {<<"1", "2", "3">>, <<"4", "5", "6">>}),
     GroupInput(<<Col("a", FALSE, "int"), Dyn("g", "int")>>, <<"a">>, {<<"1">>, <<"4">>}),
     GroupInput(<<Col("a", FALSE, "int"), Prefixed(Dyn("g", "int"), "p_")>>, <<"a", "p_m", "p_n">>,
                {<<"1", "2", "3">>, <<"4", "5", "6">>}),
     GroupInput(<<Col("a", FALSE, "int"), Fixed("f", "", MarkFields)>>, <<"a", "p", "q">>,
                {<<"1", "2", "u">>, <<"4", "5", "">>}),
     GroupInput(<<Col("a", FALSE, "int"), Fixed("f", "f_", MarkFields)>>, <<"a", "f_p", "f_q">>,
                {<<"1", "2", "u">>, <<"4", "5", "">>}),
     GroupInput(<<Col("a", FALSE, "int"), Ignored(Col("b", FALSE, "int")), Col("c", FALSE, "string")>>,
                <<"a", "c">>, {<<"1", "u">>, <<"4", "">>})}

\* the record types of the encoder sessions: those of the decoder sessions,
\* and a fixed group whose column has the name of a plain column
GroupSchemas ==
    {g.fields : g \in GroupInputs}
    \cup {<<Col("a", FALSE, "int"), Fixed("f", "", <<Col("a", FALSE, "int"), Col("q", FALSE, "string")>>)>>}

InitGroups ==
    \/ \E g \in GroupInputs : \E rows \in SeqsUpTo(g.rows, MaxGroupRows) :
            SessionStart("decoder", defaultDecodeConfig, g.fields,
                         <<Row(g.header)>> \o [i \in 1..Len(rows) |-> Row(rows[i])])
    \/ \E fs \in GroupSchemas, noHeader \in BOOLEAN :
            SessionStart("encoder", [defaultEncodeConfig EXCEPT !.NoHeaderMode = noHeader],
                         fs, <<>>)

\* the items of an encoder session: a dynamic group holds names that are
\* distinct, names that repeat, or the name of the plain column
GroupItems ==
    IF fields[2].kind = "dynamic"
    THEN {<<1, [Header |-> <<"m", "n">>, Values |-> <<2, 3>>]>>,
          <<1, [Header |-> <<"m", "m">>, Values |-> <<2, 3>>]>>,
          <<1, [Header |-> <<"a">>, Values |-> <<2>>]>>}
    ELSE IF fields[2].kind = "fixed" THEN {<<1, <<2, "u">>>>, <<4, <<0, "">>>>}
    ELSE {<<1, 0, "u">>, <<4, 0, "">>}

\* the program encodes the records a Decode returned with a new Encoder
EncodeDecoded ==
    /\ session = "decoder" /\ ret.op = "Decode" /\ ret.err = NilErr
    /\ session' = "encoder"
    /\ cfg' = defaultEncodeConfig
    /\ EncodeReturns(EncodeCall(defaultEncodeConfig, NewEncoder,
                                 [type |-> "[]Item", isNil |-> FALSE, items |-> dest],
                                 [out |-> <<>>, budget |-> MaxOut, err |-> ""]),
                     "Encode", [type |-> "[]Item"], FALSE, dest)
    /\ UNCHANGED <<fields, input, d, dest, one, hist>>

NextGroups ==
    \/ NextHeader
    \/ EncodeDecoded
    \/ \E s \in SeqsUpTo(GroupItems, MaxItems), budget \in {0, MaxItems + 1} :
            Encode([type |-> "[]Item", isNil |-> FALSE, items |-> s], budget)
    \/ EncoderFinish

SpecGroups == InitGroups /\ [][NextGroups]_vars

\* The sessions of the per-column configuration: a record type with or
\* without a dynamic group, and a configuration registered for no column, for
\* column a, for the group g, or for a name zz that no record type has.
KeySchemas ==
    {<<Col("a", FALSE, "int"), Col("b", FALSE, "int")>>,
     <<Col("a", FALSE, "int"), Dyn("g", "int")>>}

KeyConfigs ==
    {NoColumnConfig, ColumnConfig("a", FALSE, <<>>), ColumnConfig("g", FALSE, <<>>),
     ColumnConfig("zz", FALSE, <<>>)}

\* the live header of a decoder session names the columns of its record type
KeyHeader(fs) == IF fs[2].kind = "dynamic" THEN <<"a", "m">> ELSE <<"a", "b">>

InitKeys ==
    \E fs \in KeySchemas, cc \in KeyConfigs, noHeader \in BOOLEAN :
        \/ \E rows \in SeqsUpTo({<<"1", "2">>, <<"3", "4">>}, MaxRows) :
                SessionStart("decoder",
                    [defaultDecodeConfig EXCEPT !.NoHeaderMode = noHeader, !.columnConfigMap = cc],
                    fs,
                    (IF noHeader THEN <<>> ELSE <<Row(KeyHeader(fs))>>)
                        \o [i \in 1..Len(rows) |-> Row(rows[i])])
        \/ SessionStart("encoder",
                [defaultEncodeConfig EXCEPT !.NoHeaderMode = noHeader, !.columnConfigMap = cc],
                fs, <<>>)

KeyItems ==
    IF fields[2].kind = "dynamic"
    THEN {<<1, [Header |-> <<"m">>, Values |-> <<2>>]>>, <<1, [Header |-> <<>>, Values |-> <<>>]>>}
    ELSE {<<1, 2>>, <<3, 4>>}

NextKeys ==
    \/ NextHeader
    \/ \E s \in SeqsUpTo(KeyItems, MaxItems), budget \in {0, MaxItems + 1} :
            Encode([type |-> "[]Item", isNil |-> FALSE, items |-> s], budget)
    \/ \E x \in KeyItems, budget \in {0, MaxItems + 1} :
            EncodeOne([type |-> "Item", val |-> x], budget)
    \/ EncoderFinish

SpecKeys == InitKeys /\ [][NextKeys]_vars

\* The sessions of the omit-empty column: a record type whose second column is
\* an int, omit-empty or not, configured with or without trimming, a
\* preprocessor and validators, and one data row whose second cell is a
\* number, empty, blank, or a text that is no number.
OmitSchemas ==
    {<<Col("a", FALSE, "int"), OmitEmpty(Col("m", FALSE, "int"))>>,
     <<Col("a", FALSE, "int"), Col("m", FALSE, "int")>>}

OmitValidators ==
    {<<>>, <<[op |-> "GTE", val |-> 1]>>,
     <<[op |-> "GTE", val |-> 1], [op |-> "LT", val |-> 0]>>,
     <<[op |-> "LTE", val |-> 4]>>}

OmitPreprocessors == {<<>>, <<"ProcessorTrim">>, <<"ProcessorTrimPrefix">>}

OmitColumnConfig(vfs, trim, pps) ==
    [k \in {"m"} |-> [StopOnError |-> FALSE, Skip |-> FALSE, ValidatorFuncs |-> vfs,
                      TrimSpace |-> trim, PreprocessorFuncs |-> pps]]

OmitCells == {"2", "0", "", " ", "x"}

InitOmit ==
    \E fs \in OmitSchemas, noHeader \in BOOLEAN, stop \in BOOLEAN, trimAll \in BOOLEAN,
       trim \in BOOLEAN, vfs \in OmitValidators, pps \in OmitPreprocessors,
       cell \in OmitCells :
        SessionStart("decoder",
            [defaultDecodeConfig EXCEPT !.NoHeaderMode = noHeader, !.StopOnError = stop,
                                        !.TrimSpace = trimAll,
                                        !.columnConfigMap = OmitColumnConfig(vfs, trim, pps)],
            fs,
            IF noHeader THEN <<Row(<<"1", cell>>)>>
            ELSE <<Row(<<"a", "m">>), Row(<<"1", cell>>)>>)

SpecOmit == InitOmit /\ [][NextHeader]_vars

\* The sessions of the groups held by pointer: a record type with a dynamic
\* or a fixed group, held by value or by pointer, and a header that carries
\* one or two columns of the group.
WholeFields == <<Col("p", FALSE, "int"), Col("q", FALSE, "int")>>

PartFields == <<Col("p", FALSE, "int"), Col("q", TRUE, "int")>>

HeldInputs(held(_)) ==
    {GroupInput(<<Col("a", FALSE, "int"), held(Dyn("g", "int"))>>, <<"a", "m", "n">>,
                {<<"1", "2", "3">>, <<"4", "5", "6">>}),
     GroupInput(<<Col("a", FALSE, "int"), held(Dyn("g", "int"))>>, <<"a", "m">>,
                {<<"1", "2">>, <<"4", "5">>}),
     GroupInput(<<Col("a", FALSE, "int"), held(Fixed("f", "", WholeFields))>>, <<"a", "p", "q">>,
                {<<"1", "2", "3">>, <<"4", "5", "6">>}),
     GroupInput(<<Col("a", FALSE, "int"), held(Fixed("f", "", PartFields))>>, <<"a", "p">>,
                {<<"1", "2">>, <<"4", "5">>})}

ByValue(f) == f

PointerInputs == HeldInputs(Ptr) \cup HeldInputs(ByValue)

InitPointers ==
    \E g \in PointerInputs, stop \in BOOLEAN : \E rows \in SeqsUpTo(g.rows, MaxGroupRows) :
        SessionStart("decoder", [defaultDecodeConfig EXCEPT !.StopOnError = stop], g.fields,
                     <<Row(g.header)>> \o [i \in 1..Len(rows) |-> Row(rows[i])])

SpecPointers == InitPointers /\ [][NextHeader]_vars

(***************************************************************************)
(* Integer columns of a declared width (decode.go). A cell text is a       *)
(* sequence of characters.                                                 *)
(***************************************************************************)
Digits == {"0", "1", "2", "5", "6", "7", "8"}

DigitVal == [ch \in Digits |->
                CASE ch = "0" -> 0 [] ch = "1" -> 1 [] ch = "2" -> 2 [] ch = "5" -> 5
                  [] ch = "6" -> 6 [] ch = "7" -> 7 [] ch = "8" -> 8]

\* the number a run of decimal digits denotes
RECURSIVE parseDigits(_, _, _)
parseDigits(s, k, n) ==
    IF k > Len(s) THEN n ELSE parseDigits(s, k + 1, n * 10 + DigitVal[s[k]])

\* strconv.ParseUint(s, 10, bits): no sign is permitted; a value above the
\* largest of the width is a range error that returns that largest value
ParseUint(s, bits) ==
    IF s = <<>> \/ \E k \in 1..Len(s) : s[k] \notin Digits
    THEN [err |-> "ErrSyntax", n |-> 0]
    ELSE IF parseDigits(s, 1, 0) > 2 ^ bits - 1
    THEN [err |-> "ErrRange", n |-> 2 ^ bits - 1]
    ELSE [err |-> "", n |-> parseDigits(s, 1, 0)]

\* a ParseInt that reads the digits and never looks at the width
ParseIntAnyWidth(s, bits) ==
    IF s = <<>> \/ (s[1] \in {"+", "-"} /\ Len(s) = 1)
        \/ \E k \in 1..Len(s) : s[k] \notin Digits /\ ~(k = 1 /\ s[k] \in {"+", "-"})
    THEN [err |-> "ErrSyntax", n |-> 0]
    ELSE IF s[1] = "-" THEN [err |-> "", n |-> 0 - parseDigits(Tail(s), 1, 0)]
    ELSE IF s[1] = "+" THEN [err |-> "", n |-> parseDigits(Tail(s), 1, 0)]
    ELSE [err |-> "", n |-> parseDigits(s, 1, 0)]

\* the magnitude ParseInt reads after the sign
intMagnitude(s, bits) == ParseUint(IF s[1] \in {"+", "-"} THEN Tail(s) ELSE s, bits)

\* strconv.ParseInt(s, 10, bits): an optional sign, then the magnitude, which
\* must stay below the cutoff 2^(bits-1), or reach it when negative
ParseInt(s, bits) ==
    IF s = <<>> THEN [err |-> "ErrSyntax", n |-> 0]
    ELSE IF intMagnitude(s, bits).err = "ErrSyntax" THEN [err |-> "ErrSyntax", n |-> 0]
    ELSE IF s[1] # "-" /\ intMagnitude(s, bits).n >= 2 ^ (bits - 1)
    THEN [err |-> "ErrRange", n |-> 2 ^ (bits - 1) - 1]
    ELSE IF s[1] = "-" /\ intMagnitude(s, bits).n > 2 ^ (bits - 1)
    THEN [err |-> "ErrRange", n |-> 0 - 2 ^ (bits - 1)]
    ELSE [err |-> "", n |-> IF s[1] = "-" THEN 0 - intMagnitude(s, bits).n
                                           ELSE intMagnitude(s, bits).n]

\* decodeInt and decodeUint: [err, val]; the value is set on success only
decodeInt(s, v, bits) ==
    IF ParseInt(s, bits).err # "" THEN [err |-> "ErrDecodeValueType", val |-> v]
    ELSE [err |-> "", val |-> ParseInt(s, bits).n]

decodeUint(s, v, bits) ==
    IF ParseUint(s, bits).err # "" THEN [err |-> "ErrDecodeValueType", val |-> v]
    ELSE [err |-> "", val |-> ParseUint(s, bits).n]

\* reflect.Type.Bits of the integer kinds of the model
Bits(kind) == IF kind \in {"int8", "uint8"} THEN 8 ELSE 16

SignedKinds == {"int8", "int16"}

UnsignedKinds == {"uint8", "uint16"}

\* The cells of the width specification: every text of up to MaxText
\* characters over the signs, the digits and a letter, decoded into a field
\* that holds PriorValue.
MaxText == 4

TextChars == Digits \cup {"+", "-", "x"}

PriorValue == 7

InitWidth ==
    \E kind \in SignedKinds \cup UnsignedKinds, text \in SeqsUpTo(TextChars, MaxText) :
        /\ session = "codec"
        /\ cfg = defaultDecodeConfig
        /\ fields = <<Col("n", FALSE, kind)>>
        /\ input = text
        /\ d = NewDecoder
        /\ dest = OldSlice
        /\ one = <<PriorValue>>
        /\ ret = NoCall
        /\ hist = [oneErrs |-> <<>>, decodeCalled |-> FALSE]
        /\ e = NewEncoder
        /\ out = <<>>

\* the decode function of the column applied to the cell
CellDecoded(r, op) ==
    /\ one' = <<r.val>>
    /\ ret' = [op |-> op, v |-> fields[1].kind, isNil |-> FALSE, arg |-> input,
               err |-> IF r.err = "" THEN NilErr ELSE PlainErr(r.err), result |-> NilResult]
    /\ UNCHANGED <<session, cfg, fields, input, d, dest, hist, e, out>>

DecodeIntCell ==
    /\ session = "codec" /\ fields[1].kind \in SignedKinds
    /\ CellDecoded(decodeInt(input, one[1], Bits(fields[1].kind)), "decodeInt")

DecodeUintCell ==
    /\ session = "codec" /\ fields[1].kind \in UnsignedKinds
    /\ CellDecoded(decodeUint(input, one[1], Bits(fields[1].kind)), "decodeUint")

NextWidth == DecodeIntCell \/ DecodeUintCell

SpecWidth == InitWidth /\ [][NextWidth]_vars

(***************************************************************************)
(* Properties of the sessions.                                             *)
(***************************************************************************)
DecoderCalls == {"Decode", "DecodeOne"}

EncoderCalls == {"Encode", "EncodeOne"}

ProtocolCauses ==
    {"ErrFinished", "ErrAlreadyFailed", "ErrTypeInvalid", "ErrValueNil", "ErrTypeUnmatched"}

RowEntries(errs) == SelectSeq(errs, LAMBDA x : x.kind = "row")

PlainEntries(errs) == SelectSeq(errs, LAMBDA x : x.kind = "plain")

IsPrefix(s, t) == Len(s) <= Len(t) /\ s = SubSeq(t, 1, Len(s))

\* a finished decoder stays finished and rejects every call with ErrFinished
\* leaving the session as it is; Finish, a Decode that returns no error and a
\* DecodeOne that takes the last row or finds none finish the session
FinishedDecoder ==
    session = "decoder" =>
        /\ d.finished => d'.finished
        /\ (d.finished /\ ret'.op \in DecoderCalls) =>
                /\ ret'.err = PlainErr("ErrFinished")
                /\ d' = d /\ dest' = dest /\ one' = one
        /\ ret'.op = "Finish" => d'.finished
        /\ (ret'.op = "Decode" /\ ret'.err = NilErr) => d'.finished
        /\ (ret'.op = "DecodeOne" /\ ret'.err.kind \in {"nil", "row"} /\ Len(d'.rowsData) = 0)
                => d'.finished
        /\ (ret'.op = "DecodeOne" /\ ret'.err = PlainErr("ErrFinished")) => d'.finished

\* a finished encoder stays finished and rejects every call with ErrFinished
\* writing nothing; Finish finishes the session
FinishedEncoder ==
    session = "encoder" =>
        /\ e.finished => e'.finished
        /\ (e.finished /\ ret'.op \in EncoderCalls) =>
                ret'.err = PlainErr("ErrFinished") /\ e' = e /\ out' = out
        /\ ret'.op = "Finish" => e'.finished

ReturnsRowError(r) ==
    \/ r.err.kind = "row"
    \/ r.err.kind = "errors" /\ RowEntries(r.err.errs) # <<>>

\* the error a decoder call returns is the failure of its own preparation
ReturnsPrepareFailure(r) ==
    \/ r.op = "Decode" /\ r.err.kind = "errors" /\ PlainEntries(r.err.errs) # <<>>
    \/ r.op = "DecodeOne" /\ r.err.kind = "plain" /\ r.err.cause \notin ProtocolCauses

FailedDecoder ==
    session = "decoder" =>
        /\ (d.shouldStop /\ ~d.finished /\ ret'.op \in DecoderCalls) =>
                /\ ret'.err = PlainErr("ErrAlreadyFailed")
                /\ d' = d /\ dest' = dest /\ one' = one
        /\ (~d.shouldStop /\ ~d.finished /\ ret'.op \in DecoderCalls) =>
                /\ ReturnsPrepareFailure(ret') => d'.shouldStop
                /\ (cfg.StopOnError /\ ReturnsRowError(ret')) => d'.shouldStop

\* the error an encoder call returns is no rejection of the call's argument
ReturnsEncodeFailure(r, prepared) ==
    /\ r.err.kind = "plain"
    /\ r.err.cause # "ErrTypeUnmatched"
    /\ r.err.cause \in {"ErrTypeInvalid", "ErrValueNil"} => (~prepared /\ r.op = "Encode")

FailedEncoder ==
    session = "encoder" =>
        /\ (e.err # "" /\ ~e.finished /\ ret'.op \in EncoderCalls) =>
                ret'.err = PlainErr("ErrAlreadyFailed") /\ e' = e /\ out' = out
        /\ (e.err = "" /\ ~e.finished /\ ret'.op \in EncoderCalls
                /\ ReturnsEncodeFailure(ret', e.itemType # "")) => e'.err # ""

\* C2: after an unrecoverable failure (a decoder whose preparation failed or
\* whose processing halted under stop-on-error; an encoder whose preparation
\* or row encoding or row writing failed) every later Decode, DecodeOne,
\* Encode or EncodeOne on the session, while it is not finished, returns
\* ErrAlreadyFailed and neither consumes a row nor writes one.
C2_FailedIsSticky == [][FailedDecoder /\ FailedEncoder]_vars

\* a DecodeOne is rejected with ErrAlreadyFailed while rows are left
C2_Witness ==
    /\ session = "decoder" /\ ~d.finished /\ Len(d.rowsData) > 0
    /\ ret.op = "DecodeOne" /\ ret.err = PlainErr("ErrAlreadyFailed")

\* the record type of a valid variable of a decoder call, "" for another
DecodeTypeOf(op, v) ==
    IF op = "Decode" /\ v \in {"*[]Item", "*[]*Item", "*[]Other"} THEN parseOutputVar(v).itemType
    ELSE IF op = "DecodeOne" /\ v \in {"*Item", "*Other"} THEN parseOutputVarOne(v).itemType
    ELSE ""

\* the record type of a valid argument of an encoder call, "" for another
EncodeTypeOf(op, v, isNil) ==
    IF isNil THEN ""
    ELSE IF op = "Encode" /\ v = "[]Item" THEN "Item"
    ELSE IF op = "Encode" /\ v = "[]*Item" THEN "*Item"
    ELSE IF op = "Encode" /\ v = "[]Other" THEN "Other"
    ELSE IF op = "EncodeOne" /\ v \in {"Item", "*Item", "Other"} THEN v
    ELSE ""

UnmatchedDecoder ==
    (session = "decoder" /\ ~d.finished /\ ~d.shouldStop /\ d.itemType # ""
        /\ ret'.op \in DecoderCalls
        /\ DecodeTypeOf(ret'.op, ret'.v) \notin {"", d.itemType})
    => /\ ret'.err = PlainErr("ErrTypeUnmatched")
       /\ d' = d /\ dest' = dest /\ one' = one /\ hist'.oneErrs = hist.oneErrs

UnmatchedEncoder ==
    (session = "encoder" /\ ~e.finished /\ e.err = "" /\ e.itemType # ""
        /\ ret'.op \in EncoderCalls
        /\ EncodeTypeOf(ret'.op, ret'.v, ret'.isNil) \notin {"", e.itemType})
    => ret'.err = PlainErr("ErrTypeUnmatched") /\ e' = e /\ out' = out

\* C3: on a live session that is bound to a record type, a call with a valid
\* variable of a different record type returns ErrTypeUnmatched and has no
\* effect: no row is consumed or written, no error is recorded, and the
\* session stays bound to its type and usable.
C3_TypeUnmatchedHasNoEffect ==
    [][/\ UnmatchedDecoder
       /\ UnmatchedEncoder
       /\ ret'.err = PlainErr("ErrTypeUnmatched") =>
            /\ UNCHANGED <<d, dest, one, e, out>>
            /\ hist'.oneErrs = hist.oneErrs]_vars

\* a DecodeOne with a record of another type is rejected while rows are left
C3_Witness ==
    /\ session = "decoder" /\ ~d.finished /\ ~d.shouldStop /\ Len(d.rowsData) > 0
    /\ d.itemType = "Item" /\ ret.op = "DecodeOne" /\ ret.v = "*Other"
    /\ ret.err = PlainErr("ErrTypeUnmatched")

\* C4: a Decode that returns a non-nil error leaves the caller's destination
\* slice as it was, rows decoded before the failure included; the slice is
\* assigned only by a Decode that returns nil.
C4_DecodeAssignsOnlyOnSuccess ==
    [][/\ (ret'.op = "Decode" /\ ret'.err # NilErr) => dest' = dest
       /\ dest' # dest => (ret'.op = "Decode" /\ ret'.err = NilErr)]_vars

\* a Decode went through all the rows, collected the error of one of them and
\* left the caller's slice alone
C4_Witness ==
    /\ session = "decoder" /\ ~cfg.StopOnError /\ ret.op = "Decode"
    /\ ret.err.kind = "errors" /\ RowEntries(ret.err.errs) # <<>>
    /\ ret.result.totalRow > Len(ret.err.errs) + 1
    /\ Len(d.rowsData) = 0 /\ dest = OldSlice

\* the Reader's row holds no cell and no structure that fails to decode
CleanRow(rowData) ==
    /\ rowData.err = ""
    /\ \A k \in 1..Len(rowData.records) : rowData.records[k] \in DOMAIN IntOfText

\* the rows of the errors are in the order of the file
InRowOrder(errs) == \A i, j \in 1..Len(errs) : i < j => errs[i].row < errs[j].row

OneByOneRow ==
    (ret'.op = "DecodeOne" /\ ret'.err.kind \in {"nil", "row"}) =>
        /\ ret'.err.kind = "row" =>
                /\ \A k \in 1..Len(hist.oneErrs) : hist.oneErrs[k].row < ret'.err.row
                /\ \A k \in 1..Len(d'.rowsData) : ret'.err.row < d'.rowsData[k].row
        /\ d.itemType # "" =>
                /\ Len(d.rowsData) > 0 /\ d'.rowsData = Tail(d.rowsData)
                /\ ret'.err.kind = "nil" <=> CleanRow(Head(d.rowsData))
                /\ ret'.err.kind = "row" => ret'.err.row = Head(d.rowsData).row

OneByOneFinish ==
    ret'.op = "Finish" =>
        /\ ret'.err.kind \in {"nil", "errors"}
        /\ ret'.err.kind = "nil" <=> (hist.oneErrs = <<>> /\ ~d.shouldStop)
        /\ RowEntries(ret'.err.errs) = hist.oneErrs
        /\ InRowOrder(hist.oneErrs)
        /\ \A k \in 1..Len(ret'.err.errs) :
                ret'.err.errs[k].cause \notin {"ErrFinished", "ErrAlreadyFailed", "ErrTypeUnmatched"}

HeaderRowOf(itemType) == [k \in 1..Len(StructFields(itemType)) |-> StructFields(itemType)[k].name]

ItemRow(item) == [k \in 1..Len(item) |-> IntText(item[k])]

ItemRows(items) ==
    [k \in 1..Len(SelectSeq(items, LAMBDA x : x # NilItem)) |->
        ItemRow(SelectSeq(items, LAMBDA x : x # NilItem)[k])]

\* the rows a call appended to the output
Appended(before, after) == SubSeq(after, Len(before) + 1, Len(after))

HeaderFirstAndOnce ==
    /\ e'.itemType = "" => out' = <<>>
    /\ ~e'.headerWritten => out' = <<>>
    /\ e'.itemType # "" =>
        \A k \in 1..Len(out') :
            out'[k] = HeaderRowOf(e'.itemType) <=> (k = 1 /\ ~cfg.NoHeaderMode)

RowsAppendInOrder ==
    ret'.op \in EncoderCalls =>
        /\ IsPrefix(out, out')
        /\ IF e.itemType = "" /\ out' # <<>> /\ ~cfg.NoHeaderMode
           THEN IsPrefix(Tail(out'), ItemRows(ret'.arg))
           ELSE IsPrefix(Appended(out, out'), ItemRows(ret'.arg))
        /\ ret'.err = NilErr => Len(Appended(out, out')) >= Len(ItemRows(ret'.arg))

\* C6: the encoder writes the header row exactly once, in the first call that
\* prepares the session and before any data row; later calls append data rows
\* only, in the order of their input; in NoHeaderMode no header row is written.
C6_HeaderOnceThenRows ==
    [][session = "encoder" => (HeaderFirstAndOnce /\ RowsAppendInOrder)]_vars

\* a second call appended a data row under the header and the first data row
C6_Witness ==
    /\ session = "encoder" /\ ~cfg.NoHeaderMode /\ ret.op = "EncodeOne" /\ ret.err = NilErr
    /\ Len(out) = 3 /\ out[1] = <<"a", "b">> /\ out[3] = ItemRow(ret.arg[1])

(***************************************************************************)
(* Properties of the header reconciler. They speak of the first decode of  *)
(* a session with a live header: of the names of the header row, of the    *)
(* record type's fields and of what the call returns.                      *)
(***************************************************************************)
LiveHeader == input[1].records

PlainFields == SelectSeq(fields, LAMBDA f : ~f.inline)

SchemaNames == [k \in 1..Len(PlainFields) |-> PlainFields[k].name]

HasDynamicGroup == \E k \in 1..Len(fields) : fields[k].kind = "dynamic"

Distinct(h) == \A i, j \in 1..Len(h) : i < j => h[i] # h[j]

Present(name) == name \in Range(LiveHeader)

PositionOf(name) == CHOOSE p \in 1..Len(LiveHeader) : LiveHeader[p] = name

\* the live names that are no schema column's header, and those that are one's
UnknownNames == SelectSeq(LiveHeader, LAMBDA n : n \notin Range(SchemaNames))

RecognizedNames == SelectSeq(LiveHeader, LAMBDA n : n \in Range(SchemaNames))

AbsentFields == SelectSeq(PlainFields, LAMBDA f : ~Present(f.name))

AbsentNames == [k \in 1..Len(AbsentFields) |-> AbsentFields[k].name]

AllAbsentOptional == \A k \in 1..Len(AbsentFields) : AbsentFields[k].optional

PresentNames == SelectSeq(SchemaNames, Present)

\* the run of a dynamic group in the live header: from the column after the
\* schema column declared before the group to the column before the next live
\* name that is a schema column declared after the group, or to the end
GroupIndex == CHOOSE k \in 1..Len(fields) : fields[k].kind = "dynamic"

AnchorPresent == HasDynamicGroup /\ GroupIndex > 1 /\ Present(fields[GroupIndex - 1].name)

RunStart == PositionOf(fields[GroupIndex - 1].name) + 1

RunStops ==
    {p \in RunStart..Len(LiveHeader) :
        \E k \in (GroupIndex + 1)..Len(fields) : fields[k].name = LiveHeader[p]}

RunEnd == IF RunStops = {} THEN Len(LiveHeader) ELSE Min(RunStops) - 1

ExpectedRun == SubSeq(LiveHeader, RunStart, RunEnd)

\* the live positions whose name matches no schema column: no column's header
\* and no column of the group's run
UnmatchedPositions ==
    {p \in 1..Len(LiveHeader) :
        /\ LiveHeader[p] \notin Range(SchemaNames)
        /\ ~(AnchorPresent /\ p \in RunStart..RunEnd)}

\* the configuration is one a record type with a dynamic group may be decoded with
GroupConfigAllowed ==
    HasDynamicGroup => (cfg.RequireColumnOrder /\ ~cfg.AllowUnrecognizedColumns)

\* the step is the first decode of the session
FirstDecode == d.itemType = "" /\ ~d.finished /\ ~d.shouldStop /\ ret'.op \in DecoderCalls

\* the cause the call reports for a failed preparation, "" if it reports none
PrepareCause(r) ==
    IF r.op = "Decode" /\ r.err.kind = "errors" /\ Len(r.err.errs) = 1
        /\ r.err.errs[1].kind = "plain"
    THEN r.err.errs[1].cause
    ELSE IF r.op = "DecodeOne" /\ r.err.kind = "plain" THEN r.err.cause
    ELSE ""

\* the record the first decode decoded from the data row
DecodedRecord == IF ret'.op = "Decode" THEN dest'[1] ELSE one'

\* every schema column of the live header holds the cell of its live position
DecodedByName ==
    \A k \in 1..Len(fields) :
        (~fields[k].inline /\ Present(fields[k].name)) =>
            DecodedRecord[k] = PositionOf(fields[k].name)

UnrecognizedRejected ==
    (~cfg.AllowUnrecognizedColumns /\ UnknownNames # <<>>) =>
        PrepareCause(ret') = "ErrHeaderColumnUnrecognized"

UnrecognizedSkipped ==
    (cfg.AllowUnrecognizedColumns /\ ret'.err = NilErr) =>
        /\ d'.result.unrecognizedColumns = UnknownNames
        /\ DecodedByName

\* C7: for a record type without a dynamic inline group and a valid live
\* header: with AllowUnrecognizedColumns disabled, a live name that matches no
\* schema column makes the first decode fail with ErrHeaderColumnUnrecognized;
\* with it enabled, a decode that succeeds lists those names in
\* UnrecognizedColumns in live order and decodes every recognized column's
\* cell into its own field from its own live position.
C7_UnrecognizedColumns ==
    [][(FirstDecode /\ Distinct(LiveHeader) /\ ~HasDynamicGroup) =>
            (UnrecognizedRejected /\ UnrecognizedSkipped)]_vars

\* two unrecognized names were skipped around a recognized column
C7_Witness ==
    /\ cfg.AllowUnrecognizedColumns /\ ~HasDynamicGroup /\ Distinct(LiveHeader)
    /\ ret.op = "Decode" /\ ret.err = NilErr
    /\ Len(UnknownNames) = 2 /\ ret.result.unrecognizedColumns = UnknownNames
    /\ PositionOf("x") > PositionOf("y")

\* C7 as stated, for every record type: a live name that matches no schema
\* column always fails the first decode with ErrHeaderColumnUnrecognized
C7_AsStated ==
    [][(FirstDecode /\ Distinct(LiveHeader) /\ GroupConfigAllowed) =>
            /\ (~cfg.AllowUnrecognizedColumns /\ UnmatchedPositions # {}) =>
                    PrepareCause(ret') = "ErrHeaderColumnUnrecognized"
            /\ UnrecognizedSkipped]_vars

AbsentRequiredRejected ==
    ~AllAbsentOptional => PrepareCause(ret') = "ErrHeaderColumnRequired"

AbsentOptionalReported ==
    ret'.err = NilErr =>
        /\ d'.result.missingOptionalColumns = AbsentNames
        /\ \A k \in 1..Len(fields) :
                (~fields[k].inline /\ ~Present(fields[k].name)) => DecodedRecord[k] = 0

ReachesOrderCheck ==
    /\ Distinct(LiveHeader) /\ GroupConfigAllowed
    /\ (cfg.AllowUnrecognizedColumns \/ UnmatchedPositions = {})
    /\ AllAbsentOptional

OrderRequired ==
    cfg.RequireColumnOrder =>
        IF RecognizedNames = PresentNames
        THEN ret'.err = NilErr
        ELSE PrepareCause(ret') = "ErrHeaderColumnOrderInvalid"

OrderFree == ~cfg.RequireColumnOrder => (ret'.err = NilErr /\ DecodedByName)

\* C9: for a record type without a dynamic inline group, a first decode that
\* reaches the order check succeeds under RequireColumnOrder if the recognized
\* live names, in live order, equal the schema's header names in declaration
\* order with the absent optional columns removed, and fails with
\* ErrHeaderColumnOrderInvalid otherwise; with RequireColumnOrder disabled any
\* permutation of the recognized columns is accepted and each cell is decoded
\* into the field of the column named by its own header.
C9_ColumnOrder ==
    [][(FirstDecode /\ ReachesOrderCheck /\ ~HasDynamicGroup) =>
            (OrderRequired /\ OrderFree /\ (ret'.err = NilErr => DecodedByName))]_vars

\* a header with its columns in another order than the schema's is rejected
C9_Witness ==
    /\ cfg.RequireColumnOrder /\ ~HasDynamicGroup /\ Distinct(LiveHeader)
    /\ UnknownNames = <<>> /\ AllAbsentOptional
    /\ RecognizedNames = <<"c", "a">>
    /\ ret.op = "Decode" /\ PrepareCause(ret) = "ErrHeaderColumnOrderInvalid"

\* C9 as stated, for every record type
C9_AsStated ==
    [][(FirstDecode /\ ReachesOrderCheck) =>
            (OrderRequired /\ OrderFree /\ (ret'.err = NilErr => DecodedByName))]_vars

\* the group's field of the decoded record holds the run and the cells under it
GroupDecoded ==
    /\ DecodedRecord[GroupIndex].Header = ExpectedRun
    /\ DecodedRecord[GroupIndex].Values = [k \in 1..Len(ExpectedRun) |-> RunStart + k - 1]

\* C10: a dynamic inline group is resolved to exactly the contiguous run of
\* live header columns between the schema column declared before the group and
\* the next schema column present in the live header (or the end of the
\* header), and in every decoded record the group's Header equals that run and
\* its Values holds the cells under it: whenever the resolver of the record
\* type's columns succeeds it yields that run, and a decode that succeeds
\* holds it in the record.
C10_DynamicGroupRun ==
    [][(FirstDecode /\ Distinct(LiveHeader) /\ GroupConfigAllowed /\ AnchorPresent) =>
            /\ parseColumnsMetaFromStructType(cfg, "Item", LiveHeader).err = "" =>
                    parseColumnsMetaFromStructType(cfg, "Item", LiveHeader).groups[GroupIndex]
                        = ExpectedRun
            /\ ret'.err = NilErr => GroupDecoded]_vars

(***************************************************************************)
(* C11. Inline groups and the configuration.                               *)
(***************************************************************************)
HasFixedGroup == \E k \in 1..Len(fields) : fields[k].kind = "fixed"

\* the first decode gets as far as the check of the inline columns: the
\* configuration is valid by itself and the header row, if any, is read and valid
ReachesInlineCheck == validateConfig(cfg) = "" /\ readFileHeader(cfg, input).err = ""

\* the error the claim names for the configuration, "" if it names none
InlineConfigCause ==
    IF cfg.NoHeaderMode /\ (HasDynamicGroup \/ HasFixedGroup)
    THEN "ErrHeaderDynamicNotAllowNoHeaderMode"
    ELSE IF ~HasDynamicGroup THEN ""
    ELSE IF ~cfg.RequireColumnOrder THEN "ErrHeaderDynamicRequireColumnOrder"
    ELSE IF cfg.AllowUnrecognizedColumns THEN "ErrHeaderDynamicNotAllowUnrecognizedColumns"
    ELSE IF cfg.ParseLocalizedHeader THEN "ErrHeaderDynamicNotAllowLocalizedHeader"
    ELSE ""

\* the call decodes no row: no row is read into the decoder and nothing is
\* handed to the caller
NoRowDecoded ==
    /\ d'.rowsData = <<>> /\ d'.result.totalRow = 0
    /\ dest' = dest /\ one' = one

RowMembers(errors) == {i \in 1..Len(errors.errs) : IsRowErrors(errors.errs[i])}

NonCellMembers(r) == {j \in 1..Len(r.cells) : ~IsCellError(r.cells[j])}

RECURSIVE SumOver(_, _)
SumOver(S, f) ==
    IF S = {} THEN 0 ELSE LET i == CHOOSE x \in S : TRUE IN f[i] + SumOver(S \ {i}, f)

RowCountsAgree(r) ==
    RowTotalError(r) = RowTotalCellError(r) + Cardinality(NonCellMembers(r))

\* C12: in every error tree built by Add calls, the total of each RowErrors is
\* its cell errors plus its members that are no CellError; the total of the
\* Errors is the sum of the totals of its RowErrors members plus the number of
\* its other members; its row-error total is the number of its RowErrors
\* members; its cell-error total is the sum of their cell-error totals.
C12_ErrorCounts ==
    session = "errors" =>
        /\ \A i \in RowMembers(d.err) : RowCountsAgree(d.err.errs[i])
        /\ TotalError(d.err) =
                SumOver(RowMembers(d.err), [i \in RowMembers(d.err) |-> RowTotalError(d.err.errs[i])])
                + (Len(d.err.errs) - Cardinality(RowMembers(d.err)))
        /\ TotalRowError(d.err) = Cardinality(RowMembers(d.err))
        /\ TotalCellError(d.err) =
                SumOver(RowMembers(d.err), [i \in RowMembers(d.err) |-> RowTotalCellError(d.err.errs[i])])

\* a tree with a common error, a CellError added to the Errors itself, and a
\* RowErrors holding a CellError and another error: 4 errors, 1 row, 1 cell
C12_Witness ==
    /\ session = "errors"
    /\ d.err.errs = <<ErrTest, NewRowErrors(2, <<ErrCell, ErrTest>>), ErrCell>>
    /\ TotalError(d.err) = 4 /\ TotalRowError(d.err) = 1 /\ TotalCellError(d.err) = 1

(***************************************************************************)
(* C13. Errors of cells when nothing stops the decoding.                   *)
(***************************************************************************)
\* the input positions of the data rows; a row's number is its position
DataRows == {i \in 1..Len(input) : cfg.NoHeaderMode \/ i > 1}

\* every data row is read and has one field per column of the record type
WellFormedInput ==
    \A i \in DataRows : input[i].err = "" /\ Len(input[i].records) = Len(fields)

\* neither the decoder nor a column stops on an error
NothingStops ==
    /\ ~cfg.StopOnError
    /\ \A key \in DOMAIN cfg.columnConfigMap : ~cfg.columnConfigMap[key].StopOnError

ValidatorsOf(k) ==
    IF fields[k].name \in DOMAIN cfg.columnConfigMap
    THEN cfg.columnConfigMap[fields[k].name].ValidatorFuncs ELSE <<>>

\* the checks cell k of data row i fails: its decoding, or else its validators
FailedChecks(i, k) ==
    IF decodeFunc(fields[k].kind, input[i].records[k]).err # "" THEN {0}
    ELSE {v \in 1..Len(ValidatorsOf(k)) :
            validatorFunc(ValidatorsOf(k)[v],
                          decodeFunc(fields[k].kind, input[i].records[k]).val) # ""}

FailingCells(i) == {k \in 1..Len(fields) : FailedChecks(i, k) # {}}

FailingRows == {i \in DataRows : FailingCells(i) # {}}

FailedChecksOfRow(i) ==
    SumOver(1..Len(fields), [k \in 1..Len(fields) |-> Cardinality(FailedChecks(i, k))])

\* the first call is a Decode of well-formed rows that nothing stops
DecodesUnstopped ==
    FirstDecode /\ ret'.op = "Decode" /\ NothingStops /\ WellFormedInput

\* every row is processed; the error is nil when no cell fails, and else an
\* Errors holding one RowErrors per failing row, in row order, and nothing else
OneRowErrorsPerFailingRow ==
    /\ d'.rowsData = <<>>
    /\ Len(d'.colsMeta) = Len(fields)
    /\ FailingRows = {} => ret'.err = NilErr
    /\ FailingRows # {} =>
        /\ ret'.err = AsError(d'.err)
        /\ TotalRowError(d'.err) = Cardinality(FailingRows)
        /\ Len(d'.err.errs) = Cardinality(FailingRows)
        /\ {d'.err.errs[j].row : j \in 1..Len(d'.err.errs)} = FailingRows
        /\ \A j \in 1..(Len(d'.err.errs) - 1) : d'.err.errs[j].row < d'.err.errs[j + 1].row

\* C13: with StopOnError false and no column stopping on error, a Decode of
\* well-formed rows processes every row and returns an Errors with exactly one
\* RowErrors per row that has a failing cell, in row order, whose CellErrors
\* are one per failed check: one for a cell that does not decode, one per
\* failing validator for a cell that decodes.
C13_ErrorsPerRowAndCheck ==
    [][DecodesUnstopped =>
        /\ OneRowErrorsPerFailingRow
        /\ TotalCellError(d'.err) =
                SumOver(FailingRows, [i \in FailingRows |-> FailedChecksOfRow(i)])]_vars

\* C13 as stated: the CellErrors are one per failing cell
C13_AsStated ==
    [][DecodesUnstopped =>
        /\ OneRowErrorsPerFailingRow
        /\ TotalCellError(d'.err) =
                SumOver(FailingRows, [i \in FailingRows |-> Cardinality(FailingCells(i))])]_vars

\* a Decode returned two RowErrors holding three CellErrors: two cells failed
\* in the first row and one in the second
C13_Witness ==
    /\ ret.op = "Decode" /\ NothingStops /\ WellFormedInput
    /\ Cardinality(DataRows) = 2 /\ FailingRows = DataRows
    /\ \E i \in DataRows : Cardinality(FailingCells(i)) = 2
    /\ ret.err.kind = "errors"
    /\ TotalRowError(d.err) = 2 /\ TotalCellError(d.err) = 3
    /\ d.rowsData = <<>>

(***************************************************************************)
(* C14. Rows of incorrect structure.                                       *)
(***************************************************************************)
GoodRows == {i \in DataRows : input[i].err = ""}

BadRows == DataRows \ GoodRows

\* the error readRowData makes of the Reader's error for row i
StructureCause(i) ==
    IF input[i].err = "csv.ErrFieldCount" THEN "ErrDecodeRowFieldCount"
    ELSE "ErrDecodeQuoteInvalid"

\* the RowErrors of a row of incorrect structure: one member, of column -1
StructureRowErrors(i) == NewRowErrors(i, <<NewCellError(StructureCause(i), -1, "")>>)

\* incorrect structure is kept as an error of its row
StructureTolerated == ~cfg.TreatIncorrectStructureAsError /\ ~cfg.StopOnError

\* the input position of the row the next DecodeOne takes
NextRowIndex ==
    IF d.itemType = "" THEN (IF cfg.NoHeaderMode THEN 1 ELSE 2)
    ELSE Len(input) - Len(d.rowsData) + 1

\* the first decode reads every row and counts it
ReadsEveryRow ==
    (FirstDecode /\ StructureTolerated) =>
        /\ PrepareCause(ret') \notin {"ErrDecodeRowFieldCount", "ErrDecodeQuoteInvalid"}
        /\ d'.result.totalRow = Len(input) /\ d'.err.totalRow = Len(input)

\* a DecodeOne that takes a row of incorrect structure returns its RowErrors,
\* records it, and leaves the session open for the rows after it
BadRowIsRowError ==
    (/\ ret'.op = "DecodeOne" /\ ~d.finished /\ ~d.shouldStop /\ StructureTolerated
     /\ NextRowIndex \in BadRows) =>
        /\ ret'.err = StructureRowErrors(NextRowIndex)
        /\ d'.err.errs = Append(d.err.errs, StructureRowErrors(NextRowIndex))
        /\ ~d'.shouldStop
        /\ Len(d'.rowsData) = Len(input) - NextRowIndex

\* a Decode that nothing stops decodes the rows before and after a row of
\* incorrect structure: its Errors holds that row and every row with a failing cell
RowsAfterAreDecoded ==
    (/\ FirstDecode /\ ret'.op = "Decode" /\ NothingStops /\ StructureTolerated
     /\ \A i \in GoodRows : Len(input[i].records) = Len(fields)) =>
        /\ d'.rowsData = <<>>
        /\ \A i \in BadRows : \E j \in 1..Len(d'.err.errs) : d'.err.errs[j] = StructureRowErrors(i)
        /\ {d'.err.errs[j].row : j \in 1..Len(d'.err.errs)}
                = BadRows \cup {i \in GoodRows : FailingCells(i) # {}}

\* when incorrect structure is an error, or the decoder stops on errors, the
\* first decode fails with the error of the first such row and returns no result
StructureFails ==
    (FirstDecode /\ ~StructureTolerated /\ BadRows # {}) =>
        /\ PrepareCause(ret') = StructureCause(Min(BadRows))
        /\ ret'.result = NilResult
        /\ NoRowDecoded /\ d'.shouldStop

\* C14: with TreatIncorrectStructureAsError and StopOnError both false, a row
\* the Reader rejects for its field count or its quoting does not abort the
\* session: it is counted in TotalRow, it is recorded as one RowErrors of its
\* row number whose single member has column -1 and wraps
\* ErrDecodeRowFieldCount or ErrDecodeQuoteInvalid, and the rows after it are
\* still decoded; with either option true the first decode fails with that
\* error and returns no result.
C14_IncorrectStructure ==
    [][ReadsEveryRow /\ BadRowIsRowError /\ RowsAfterAreDecoded /\ StructureFails]_vars

\* C14 as stated: TreatIncorrectStructureAsError false alone keeps the session
\* from failing on such a row
C14_AsStated ==
    [][(FirstDecode /\ ~cfg.TreatIncorrectStructureAsError /\ BadRows # {}) =>
        PrepareCause(ret') \notin {"ErrDecodeRowFieldCount", "ErrDecodeQuoteInvalid"}]_vars

\* a row of incorrect structure was recorded as the RowErrors of row 1 and the
\* row after it was then decoded by DecodeOne
C14_Witness ==
    /\ StructureTolerated /\ cfg.NoHeaderMode
    /\ Len(input) = 2 /\ BadRows = {1}
    /\ d.err.errs = <<StructureRowErrors(1)>>
    /\ d.result.totalRow = 2
    /\ ret.op = "DecodeOne" /\ ret.err = NilErr /\ one = <<1, 2>>
    /\ d.finished

(***************************************************************************)
(* C15. Rows whose field count is not the number of resolved columns.      *)
(***************************************************************************)
\* the rows the Reader hands over whose field count is not the number of columns
MismatchedRows == {i \in GoodRows : Len(input[i].records) # Len(fields)}

\* the call ends with an error value: a row-level error or a failure of the session
EndsAsError == ret'.err.kind \in {"row", "plain", "errors"}

\* C15: a row whose number of fields differs from the number of resolved
\* columns never ends as a success and never as an out-of-range access: the
\* DecodeOne that takes it, and a first Decode of an input that holds one,
\* return an error.
C15_FieldCountIsChecked ==
    [][/\ (/\ ret'.op = "DecodeOne" /\ ~d.finished /\ ~d.shouldStop
            /\ (d.itemType = "" => PrepareCause(ret') \notin ProtocolCauses)
            /\ NextRowIndex \in MismatchedRows) => EndsAsError
       /\ (FirstDecode /\ ret'.op = "Decode" /\ MismatchedRows # {}) => EndsAsError]_vars

(***************************************************************************)
(* C16. Unsupported kinds.                                                 *)
(***************************************************************************)
Unsupported(k) == ~fields[k].ignored /\ getDecodeFunc(fields[k].kind) # ""

\* the columns the decoder resolves: every column of the record type in
\* headerless mode, else the columns the live header names
Resolved(k) == cfg.NoHeaderMode \/ Present(fields[k].name)

\* the first decode gets as far as building the decoders of the columns
ReachesDecoders ==
    FirstDecode /\ validateConfig(cfg) = "" /\ parseColumnsMeta(cfg, "Item", input).err = ""

\* the step is the first Encode or EncodeOne of the session
FirstEncode ==
    session = "encoder" /\ e.itemType = "" /\ ~e.finished /\ e.err = ""
    /\ ret'.op \in {"Encode", "EncodeOne"}

\* an error of a cell with the cause ErrTypeUnsupported, in what the call
\* returns or in what the decoder has recorded
RowReportsUnsupported(errs) ==
    \E j \in 1..Len(errs) :
        /\ IsRowErrors(errs[j])
        /\ \E c \in 1..Len(errs[j].cells) : errs[j].cells[c].cause = "ErrTypeUnsupported"

\* an item handed to the call holds a value of an unsupported type in an open column
OpenColumnHoldsUnsupported ==
    \E i \in 1..Len(ret'.arg), k \in 1..Len(fields) :
        fields[k].kind = "any" /\ ret'.arg[i][k] = AnyMap

DecoderRejectsResolvedKinds ==
    (ReachesDecoders /\ \E k \in 1..Len(fields) : Unsupported(k) /\ Resolved(k)) =>
        PrepareCause(ret') = "ErrTypeUnsupported" /\ NoRowDecoded

EncoderRejectsKinds ==
    (FirstEncode /\ \E k \in 1..Len(fields) : Unsupported(k)) =>
        ret'.err = PlainErr("ErrTypeUnsupported") /\ out' = out

DecoderRowsNeverReport ==
    session = "decoder" =>
        /\ ~RowReportsUnsupported(d'.err.errs)
        /\ ~RowReportsUnsupported(<<ret'.err>>)
        /\ PrepareCause(ret') = "ErrTypeUnsupported" =>
                (FirstDecode /\ \E k \in 1..Len(fields) : Unsupported(k))

EncoderRowsReportOpenColumnsOnly ==
    (/\ session = "encoder" /\ ret'.op \in {"Encode", "EncodeOne"}
     /\ e.err = "" /\ ret'.err = PlainErr("ErrTypeUnsupported")) =>
        \/ FirstEncode /\ \E k \in 1..Len(fields) : Unsupported(k)
        \/ OpenColumnHoldsUnsupported

\* C16: a column of an unsupported kind fails the first call with
\* ErrTypeUnsupported before any row is decoded or written: in an encoder and
\* a headerless decoder every column of the record type that is not ignored,
\* in a decoder with a header every such column the live header names. While
\* a row is decoded ErrTypeUnsupported is never produced; while a row is
\* encoded it is produced only by an open column holding a value of an
\* unsupported type.
C16_UnsupportedKinds ==
    [][/\ DecoderRejectsResolvedKinds /\ EncoderRejectsKinds
       /\ DecoderRowsNeverReport /\ EncoderRowsReportOpenColumnsOnly]_vars

\* C16 as stated: every column of an unsupported kind fails the first decode,
\* and ErrTypeUnsupported comes from the columns' kinds alone
C16_AsStated ==
    [][/\ (ReachesDecoders /\ \E k \in 1..Len(fields) : Unsupported(k)) =>
            PrepareCause(ret') = "ErrTypeUnsupported"
       /\ EncoderRejectsKinds
       /\ (session = "encoder" /\ e.err = "" /\ ret'.err = PlainErr("ErrTypeUnsupported")) =>
            (FirstEncode /\ \E k \in 1..Len(fields) : Unsupported(k))]_vars

\* the first Encode of a record type with a map column failed with
\* ErrTypeUnsupported and wrote nothing, not even the header
C16_Witness ==
    /\ session = "encoder" /\ fields[2].kind = "map" /\ ~cfg.NoHeaderMode
    /\ ret.op = "Encode" /\ Len(ret.arg) > 0
    /\ ret.err = PlainErr("ErrTypeUnsupported")
    /\ out = <<>> /\ e.err = "ErrTypeUnsupported"

(***************************************************************************)
(* Pointer columns.                                                        *)
(***************************************************************************)
\* the step is a DecodeOne that decoded a data row of two cells into a record
\* whose second field is a pointer to an int
DecodesPointerRow ==
    /\ session = "decoder" /\ fields[2].kind = "*int"
    /\ ret'.op = "DecodeOne" /\ ret'.err.kind \in {"nil", "row"}
    /\ NextRowIndex \in DataRows
    /\ Len(input[NextRowIndex].records) = 2

\* the cell of the pointer column in the row the step decodes
PointerCell == input[NextRowIndex].records[2]

\* the cell is one the decoder reads and its text is a number
PointerCellDecodes ==
    /\ ~(fields[2].omitempty /\ PointerCell = "")
    /\ PointerCell \in DOMAIN IntOfText

\* C17: after a row is decoded a pointer field is non-nil exactly when a cell
\* value was successfully decoded into it; it is nil when the cell was empty
\* and the column is omit-empty, and nil when decoding the cell failed
C17_PointeeOnlyOnSuccess ==
    [][DecodesPointerRow => (~one'[2].nil <=> PointerCellDecodes)]_vars

\* a DecodeOne returned the error of a cell that is not a number and left the
\* pointer field allocated, pointing to zero
C17_FailedCellAllocates ==
    /\ session = "decoder" /\ fields[2].kind = "*int"
    /\ ret.op = "DecodeOne" /\ ret.err.kind = "row"
    /\ one[2] = PtrTo(0)

(***************************************************************************)
(* Omit-empty columns on encode.                                           *)
(***************************************************************************)
\* the step is an Encode or EncodeOne that wrote every row it was given, of a
\* record type whose second column is omit-empty
EncodesOmitEmptyRows ==
    /\ session = "encoder" /\ fields[2].omitempty
    /\ ret'.op \in {"Encode", "EncodeOne"} /\ ret'.err = NilErr
    /\ Len(ret'.arg) > 0

\* the field the step wrote for the second column of its i-th row
WrittenField(i) == out'[Len(out') - Len(ret'.arg) + i][2]

\* what the library writes for an omit-empty column, kind by kind
OmitEmptyText(kind, val) ==
    IF kind = "int" THEN (IF val = 0 THEN "" ELSE IntText(val))
    ELSE IF kind = "*int" THEN (IF val.nil \/ val.v = 0 THEN "" ELSE IntText(val.v))
    ELSE IF kind = "ID" THEN MarshalCSV(val)
    ELSE IF val.type = "nil" THEN ""
    ELSE IF val.type = "int" THEN (IF val.int = 0 THEN "" ELSE IntText(val.int))
    ELSE val.str

\* what the column would hold if emptiness meant the zero value of its type
ZeroValueText(kind, val) ==
    IF val = ZeroOf(kind) THEN "" ELSE encodeFunc(kind, val, FALSE).text

\* C18: an omit-empty column is written empty when a built-in value is zero,
\* when a pointer is nil or points to zero, and when an open column holds
\* nothing or a zero; a type with a custom marshal method is written as its
\* method's text, zero value included; every other value is written as its
\* encoded text
C18_OmitEmptyByKind ==
    [][EncodesOmitEmptyRows =>
        \A i \in 1..Len(ret'.arg) :
            WrittenField(i) = OmitEmptyText(fields[2].kind, ret'.arg[i][2])]_vars

\* C18 as stated: the field is empty exactly for the zero value of the type
C18_AsStated ==
    [][EncodesOmitEmptyRows =>
        \A i \in 1..Len(ret'.arg) :
            WrittenField(i) = ZeroValueText(fields[2].kind, ret'.arg[i][2])]_vars

\* an EncodeOne wrote a record whose omit-empty pointer field points to zero,
\* and the field of the row is empty
C18_Witness ==
    /\ session = "encoder" /\ fields[2].omitempty /\ fields[2].kind = "*int"
    /\ ret.op = "EncodeOne" /\ ret.err = NilErr
    /\ ret.arg = <<<<1, PtrTo(0)>>>>
    /\ Len(out) > 0 /\ out[Len(out)] = <<"1", "">>

(***************************************************************************)
(* Decoding and encoding again.                                            *)
(***************************************************************************)
\* the step encodes the records of a Decode that read every data row without error
EncodesDecoded ==
    session = "decoder" /\ session' = "encoder" /\ Len(dest) = Len(input) - 1

\* the rows the decoder session read, header row first
OriginalRows == [i \in 1..Len(input) |-> input[i].records]

\* the record type has a dynamic group with a prefix
HasPrefixedDynamicGroup ==
    \E k \in 1..Len(fields) : fields[k].kind = "dynamic" /\ fields[k].prefix # ""

\* C19: encoding the records decoded without error from a header and data
\* rows that match the record type writes the original header row and the
\* original cells, for fixed and dynamic groups with or without a prefix
C19_RoundTrip ==
    [][EncodesDecoded => (ret'.err = NilErr /\ out' = OriginalRows)]_vars

\* the record type has a dynamic group and the input has no data row to
\* expand it from
DynamicGroupUnexpanded ==
    Len(input) = 1 /\ \E k \in 1..Len(fields) : fields[k].kind = "dynamic"

\* the round trip of the record types without a prefixed dynamic group, a
\* dynamic group having a data row
C19_RoundTripUnprefixed ==
    [][(EncodesDecoded /\ ~HasPrefixedDynamicGroup /\ ~DynamicGroupUnexpanded) =>
            (ret'.err = NilErr /\ out' = OriginalRows)]_vars

\* the records of a prefixed dynamic group were encoded: the names of the header
\* written carry the prefix twice
C19_PrefixTwice ==
    /\ session = "encoder" /\ input # <<>> /\ HasPrefixedDynamicGroup
    /\ ret.op = "Encode" /\ ret.err = NilErr
    /\ input[1].records = <<"a", "p_m", "p_n">>
    /\ out[1] = <<"a", "p_p_m", "p_p_n">>

(***************************************************************************)
(* The header an encoder writes.                                           *)
(***************************************************************************)
\* the column names of field f of a record type, first the first row given:
\* a dynamic group has one name per name of its Header, a fixed group one per
\* field of its struct that is not ignored, each after the prefix of the tag
FieldNames(f, first, i) ==
    IF f.ignored THEN <<>>
    ELSE IF f.kind = "dynamic"
    THEN [k \in 1..Len(first[i].Header) |-> f.prefix \o first[i].Header[k]]
    ELSE IF f.kind = "fixed"
    THEN [k \in 1..Len(SelectSeq(f.sub, LAMBDA sf : ~sf.ignored)) |->
            f.prefix \o SelectSeq(f.sub, LAMBDA sf : ~sf.ignored)[k].name]
    ELSE <<f.name>>

RECURSIVE FlatHeader(_, _, _)
FlatHeader(fs, first, i) ==
    IF i > Len(fs) THEN <<>>
    ELSE FieldNames(fs[i], first, i) \o FlatHeader(fs, first, i + 1)

\* for each name of the flattened header, whether a dynamic group gave it
RECURSIVE FromDynamic(_, _, _)
FromDynamic(fs, first, i) ==
    IF i > Len(fs) THEN <<>>
    ELSE [k \in 1..Len(FieldNames(fs[i], first, i)) |-> fs[i].kind = "dynamic"]
         \o FromDynamic(fs, first, i + 1)

\* the name at position i repeats an earlier one
Repeats(header, i) == \E j \in 1..(i - 1) : header[j] = header[i]

\* the step is the first Encode of a session, given at least one item
FirstEncodeOfItems == FirstEncode /\ ret'.op = "Encode" /\ Len(ret'.arg) > 0

StepHeader == FlatHeader(fields, ret'.arg[1], 1)

StepFromDynamic == FromDynamic(fields, ret'.arg[1], 1)

\* a first Encode that succeeds in header mode writes the flattened header first
WritesFlatHeader ==
    (FirstEncodeOfItems /\ ~cfg.NoHeaderMode /\ ret'.err = NilErr) =>
        (Len(out') > 0 /\ out'[1] = StepHeader)

\* a name repeated by a column that is not of a dynamic group fails the call
PlainDuplicateFails ==
    (FirstEncodeOfItems
     /\ \E i \in 1..Len(StepHeader) : Repeats(StepHeader, i) /\ ~StepFromDynamic[i]) =>
        ret'.err = PlainErr("ErrHeaderColumnDuplicated")

\* names repeated by columns of dynamic groups only do not fail the call
DynamicDuplicateTolerated ==
    (FirstEncodeOfItems
     /\ \A i \in 1..Len(StepHeader) : Repeats(StepHeader, i) => StepFromDynamic[i]) =>
        ret'.err # PlainErr("ErrHeaderColumnDuplicated")

\* any repeated name fails the call
AnyDuplicateFails ==
    (FirstEncodeOfItems /\ \E i \in 1..Len(StepHeader) : Repeats(StepHeader, i)) =>
        (ret'.err = PlainErr("ErrHeaderColumnDuplicated") /\ out' = out)

\* C20: the header written is the flattened schema, each dynamic group
\* expanded from the Header of the first row; a duplicate column name makes
\* the first Encode fail with ErrHeaderColumnDuplicated, except that
\* duplicates that arise from dynamic-group columns are tolerated
C20_HeaderAndDuplicates ==
    [][WritesFlatHeader /\ PlainDuplicateFails /\ DynamicDuplicateTolerated]_vars

\* what the encoder does: the flattened header is written, and every
\* repeated name fails the first Encode, which writes nothing
C20_EveryDuplicateFails ==
    [][WritesFlatHeader /\ AnyDuplicateFails]_vars

\* the first Encode of a dynamic group whose Header repeats a name failed with
\* ErrHeaderColumnDuplicated and wrote nothing
C20_DynamicDuplicateRejected ==
    /\ session = "encoder" /\ fields[2].kind = "dynamic"
    /\ ret.op = "Encode" /\ Len(ret.arg) > 0 /\ ret.arg[1][2].Header = <<"m", "m">>
    /\ ret.err = PlainErr("ErrHeaderColumnDuplicated")
    /\ out = <<>>

(***************************************************************************)
(* Per-column configuration under an unknown key.                          *)
(***************************************************************************)
\* a configuration is registered under a key that no column of the record
\* type and no inline group has
UnknownKeyConfigured ==
    \E colKey \in DOMAIN cfg.columnConfigMap :
        \A k \in 1..Len(fields) : fields[k].ignored \/ fields[k].name # colKey

WithoutColumnConfig == [cfg EXCEPT !.columnConfigMap = NoColumnConfig]

\* the step is the first decode of a session that the unknown key alone makes invalid
DecodesUnderUnknownKey ==
    /\ session = "decoder" /\ FirstDecode /\ UnknownKeyConfigured
    /\ validateConfig(cfg) = ""
    /\ parseColumnsMeta(WithoutColumnConfig, "Item", input).err = ""

\* the step is the first encode of a session that the unknown key alone makes invalid
EncodesUnderUnknownKey ==
    /\ FirstEncode /\ UnknownKeyConfigured
    /\ encoderParseColumnsMeta(WithoutColumnConfig, "Item",
            [type |-> "[]Item", isNil |-> FALSE, items |-> ret'.arg]).err = ""

UnknownKeyFailsDecode ==
    DecodesUnderUnknownKey => (PrepareCause(ret') = "ErrConfigOptionInvalid" /\ NoRowDecoded)

UnknownKeyFailsEncode ==
    EncodesUnderUnknownKey => (ret'.err = PlainErr("ErrConfigOptionInvalid") /\ out' = out)

\* C21: a per-column configuration under a key that is neither a column's
\* key nor an inline group's parent key makes the first Decode and the first
\* Encode fail with ErrConfigOptionInvalid with no row processed, in
\* headerless mode too
C21_UnknownColumnKey ==
    [][UnknownKeyFailsDecode /\ UnknownKeyFailsEncode]_vars

\* the same with a header: the decoder checks the keys only after it has
\* read a header row
C21_UnknownColumnKeyWithHeader ==
    [][(~cfg.NoHeaderMode => UnknownKeyFailsDecode) /\ UnknownKeyFailsEncode]_vars

\* a headerless Decode under the key zz returned a row without error
C21_HeaderlessIgnoresKey ==
    /\ session = "decoder" /\ cfg.NoHeaderMode /\ "zz" \in DOMAIN cfg.columnConfigMap
    /\ ret.op = "Decode" /\ ret.err = NilErr
    /\ Len(dest) > 0 /\ dest[1] = <<1, 2>>

(***************************************************************************)
(* Session-protocol errors.                                                *)
(***************************************************************************)
ProtocolErrors == {"ErrFinished", "ErrAlreadyFailed", "ErrTypeUnmatched", "ErrValueNil"}

\* the decoder's accumulated Errors holds a session-protocol error
DecoderCollected(dd) ==
    \E i \in 1..Len(dd.err.errs) :
        dd.err.errs[i].kind = "plain" /\ dd.err.errs[i].cause \in ProtocolErrors

\* a call that returns a session-protocol error returns it directly and
\* leaves the session as live or as failed as it was
ProtocolErrorIsImmediate ==
    (ret'.err.cause \in ProtocolErrors) =>
        /\ ret'.err.kind = "plain"
        /\ d'.err.errs = d.err.errs /\ d'.shouldStop = d.shouldStop
        /\ e'.err = e.err

\* no session-protocol error is collected by a decoder or stored by an encoder
ProtocolErrorNeverCollected == ~DecoderCollected(d') /\ e'.err \notin ProtocolErrors

\* C22: ErrFinished, ErrAlreadyFailed, ErrTypeUnmatched and ErrValueNil are
\* returned directly by the call that detects them; they are never added to
\* a decoder's accumulated Errors nor stored as an encoder's session error,
\* and never put a session into the failed state
C22_ProtocolErrorsImmediate ==
    [][ProtocolErrorIsImmediate /\ ProtocolErrorNeverCollected]_vars

\* the step is a first Encode that is handed a nil slice
FirstEncodeOfNil == FirstEncode /\ ret'.op = "Encode" /\ ret'.isNil

\* every call but a first Encode of a nil slice returns such an error
\* directly and collects none
C22_ExceptFirstEncodeOfNil ==
    [][~FirstEncodeOfNil =>
        /\ ProtocolErrorIsImmediate
        /\ DecoderCollected(d') => DecoderCollected(d)
        /\ e'.err \in ProtocolErrors => e'.err = e.err]_vars

\* a first Encode of a nil slice stored ErrValueNil as the session error, and
\* the Encode of a valid slice that followed was rejected
C22_NilSliceFailsSession ==
    /\ session = "encoder" /\ e.err = "ErrValueNil"
    /\ ret.op = "Encode" /\ ~ret.isNil /\ ret.v = "[]Item"
    /\ ret.err = PlainErr("ErrAlreadyFailed")

(***************************************************************************)
(* Encoding an empty slice.                                                *)
(***************************************************************************)
\* the header of a record type when no row expands its dynamic groups
EmptyHeader == FlatHeader(fields, ZeroRecord("Item"), 1)

\* the step is the first Encode of a session, given an empty slice of a record
\* type whose column names are distinct, and the Writer accepts what it is given
EncodesEmptySlice ==
    /\ FirstEncode /\ ret'.op = "Encode" /\ ~ret'.isNil /\ ret'.arg = <<>>
    /\ \A i \in 1..Len(EmptyHeader) : ~Repeats(EmptyHeader, i)
    /\ ret'.err.cause # "io.ErrShortWrite"

HasDynamicField == \E k \in 1..Len(fields) : fields[k].kind = "dynamic"

WritesHeaderOnly ==
    /\ ret'.err = NilErr
    /\ out' = IF cfg.NoHeaderMode THEN <<>> ELSE <<EmptyHeader>>

\* C23: encoding an empty slice of a valid record type, with fixed or dynamic
\* groups too, succeeds and writes exactly the header row and no data row; in
\* NoHeaderMode it writes nothing
C23_EmptySlice == [][EncodesEmptySlice => WritesHeaderOnly]_vars

\* the same for the record types without a dynamic group
C23_EmptySliceWithoutDynamic ==
    [][(EncodesEmptySlice /\ ~HasDynamicField) => WritesHeaderOnly]_vars

\* the first Encode of an empty slice of a record type with a dynamic group
\* failed and wrote nothing
C23_DynamicGroupFails ==
    /\ session = "encoder" /\ HasDynamicField
    /\ ret.op = "Encode" /\ ~ret.isNil /\ ret.arg = <<>>
    /\ ret.err = PlainErr("ErrHeaderDynamicTypeInvalid")
    /\ out = <<>> /\ e.err = "ErrHeaderDynamicTypeInvalid"

(***************************************************************************)
(* Stop-on-error.                                                          *)
(***************************************************************************)
\* column k stops the session when it fails
ColumnStops(k) ==
    \/ cfg.StopOnError
    \/ /\ fields[k].name \in DOMAIN cfg.columnConfigMap
       /\ cfg.columnConfigMap[fields[k].name].StopOnError

\* the rows in which a cell fails that stops the session
StoppingRows == {i \in FailingRows : \E k \in FailingCells(i) : ColumnStops(k)}

\* the first call is a Decode of well-formed rows, one of which stops the session
DecodesStopped ==
    FirstDecode /\ ret'.op = "Decode" /\ WellFormedInput /\ StoppingRows # {}

\* the RowErrors the decoder holds for data row i
RowErrorsOf(dd, i) ==
    dd.err.errs[CHOOSE j \in 1..Len(dd.err.errs) : dd.err.errs[j].row = i]

\* the columns named by the CellErrors of a RowErrors
ColumnsOf(r) == {r.cells[j].column + 1 : j \in 1..Len(r.cells)}

\* the stopping row is processed through its last column: every cell of it
\* that fails has a CellError, the cells after the one that stops included
StoppingRowIsFinished ==
    ColumnsOf(RowErrorsOf(d', Min(StoppingRows))) = FailingCells(Min(StoppingRows))

\* no row after the stopping row is decoded: the Errors holds the failing rows
\* up to it and no other, and the session has stopped
NoRowAfterStop ==
    /\ d'.shouldStop
    /\ ret'.err = AsError(d'.err)
    /\ {d'.err.errs[j].row : j \in 1..Len(d'.err.errs)} =
            {i \in FailingRows : i <= Min(StoppingRows)}
    /\ Len(d'.err.errs) = Cardinality({i \in FailingRows : i <= Min(StoppingRows)})

\* C24: when stop-on-error is active globally or for the column that fails,
\* the row of the failing cell is processed through its last column and no
\* row after it is decoded; under global stop-on-error the Errors that Decode
\* returns holds exactly one RowErrors
C24_StopAfterRow ==
    [][DecodesStopped =>
        /\ StoppingRowIsFinished
        /\ NoRowAfterStop
        /\ cfg.StopOnError => TotalRowError(d'.err) = 1]_vars

\* a Decode under global stop-on-error returned one RowErrors with the errors
\* of both cells of the first row, and a second row was left undecoded
C24_Witness ==
    /\ session = "decoder" /\ cfg.StopOnError /\ ret.op = "Decode"
    /\ Len(input) >= 2 /\ input[Len(input) - 1].records = <<"x", "y">>
    /\ input[Len(input)].records = <<"1", "x">>
    /\ Len(d.err.errs) = 1 /\ Len(d.err.errs[1].cells) = 2
    /\ d.shouldStop

(***************************************************************************)
(* Omit-empty on decode.                                                   *)
(***************************************************************************)
\* the cell of the second column in the data row, and the configuration of
\* that column
OmitCell == input[Len(input)].records[2]

OmitConfig == cfg.columnConfigMap[fields[2].name]

\* the cell is empty once it is trimmed and preprocessed
EmptyAfterProcessing ==
    \/ OmitCell = ""
    \/ OmitCell = " " /\ (cfg.TrimSpace \/ OmitConfig.TrimSpace
                            \/ OmitConfig.PreprocessorFuncs = <<"ProcessorTrim">>)
    \/ OmitCell = "x" /\ OmitConfig.PreprocessorFuncs = <<"ProcessorTrimPrefix">>

\* the errors of the column's validators on value v, in declared order; the
\* first one only when the decoder stops on error
Rejections(v) ==
    SelectSeq([k \in 1..Len(OmitConfig.ValidatorFuncs) |->
                    validatorFunc(OmitConfig.ValidatorFuncs[k], v)],
              LAMBDA x : x # "")

ValidationErrors(v) ==
    IF cfg.StopOnError /\ Len(Rejections(v)) > 1 THEN <<Rejections(v)[1]>> ELSE Rejections(v)

\* the causes of the cell errors a call returned
CellCauses(err) ==
    IF err.kind = "row" THEN [k \in 1..Len(err.cells) |-> err.cells[k].cause] ELSE <<>>

\* the first call is a DecodeOne, which decodes the data row
DecodesOmitRow == FirstDecode /\ ret'.op = "DecodeOne"

\* an empty cell of an omit-empty column leaves the field zero, and the
\* validators run on the zero value
EmptyCellValidated ==
    (fields[2].omitempty /\ EmptyAfterProcessing) =>
        /\ one'[2] = ZeroOf("int")
        /\ CellCauses(ret'.err) = ValidationErrors(ZeroOf("int"))

\* a cell that decodes is validated on what it decoded to
DecodedCellValidated ==
    (~EmptyAfterProcessing /\ OmitCell \in DOMAIN IntOfText) =>
        /\ one'[2] = IntOfText[OmitCell]
        /\ CellCauses(ret'.err) = ValidationErrors(IntOfText[OmitCell])

\* C25: for an omit-empty column, a cell that is empty after trimming and
\* preprocessing is not passed to the decode function and leaves the field at
\* its zero value, yet the column's validators still run on that zero value,
\* in declared order, as they run on every cell whose decoding did not fail;
\* a validator that rejects the zero value turns the empty cell into a cell error
C25_OmitEmptyValidated ==
    [][DecodesOmitRow => EmptyCellValidated /\ DecodedCellValidated]_vars

\* a cell whose decoding fails is not validated
C25_FailedCellNotValidated ==
    [][(DecodesOmitRow /\ ~(fields[2].omitempty /\ EmptyAfterProcessing)
            /\ (EmptyAfterProcessing \/ OmitCell \notin DOMAIN IntOfText))
        => CellCauses(ret'.err) = <<"ErrDecodeValueType">>]_vars

\* a blank cell of a trimmed omit-empty column was left at zero and rejected
\* by both validators of the column, in their order
C25_Witness ==
    /\ session = "decoder" /\ ret.op = "DecodeOne" /\ fields[2].omitempty
    /\ OmitCell = " " /\ OmitConfig.TrimSpace /\ ~cfg.StopOnError
    /\ one = <<1, 0>>
    /\ CellCauses(ret.err) = <<"ErrValidationGTE", "ErrValidationLT">>

(***************************************************************************)
(* Integer width.                                                          *)
(***************************************************************************)
\* the text is an optional sign followed by one or more decimal digits
IsInteger(s) ==
    /\ s # <<>>
    /\ Len(IF s[1] \in {"+", "-"} THEN Tail(s) ELSE s) > 0
    /\ \A k \in 1..Len(s) : s[k] \in Digits \/ (k = 1 /\ s[k] \in {"+", "-"})

\* the text is one or more decimal digits, with no sign
IsUnsignedInteger(s) == s # <<>> /\ \A k \in 1..Len(s) : s[k] \in Digits

\* the integer the text denotes
IntegerOf(s) ==
    IF s[1] = "-" THEN 0 - parseDigits(Tail(s), 1, 0)
    ELSE IF s[1] = "+" THEN parseDigits(Tail(s), 1, 0)
    ELSE parseDigits(s, 1, 0)

\* the integers a kind represents
RangeOf(kind) ==
    IF kind = "int8" THEN -128..127
    ELSE IF kind = "int16" THEN -32768..32767
    ELSE IF kind = "uint8" THEN 0..255
    ELSE 0..65535

\* the cell was decoded: the field holds the integer of the text
CellSucceeds == ret'.err = NilErr /\ one' = <<IntegerOf(input)>>

\* the cell failed with ErrDecodeValueType and the field is as it was
CellFails == ret'.err = PlainErr("ErrDecodeValueType") /\ one' = <<PriorValue>>

\* the first decode of the cell
DecodesCell == ret.op = NoCall.op /\ ret'.op \in {"decodeInt", "decodeUint"}

\* C26 as stated: decoding into a signed or unsigned integer column of width
\* w succeeds exactly when the cell text is a base-10 integer within the
\* range representable in w bits; any other text yields ErrDecodeValueType
\* and leaves the field unchanged
C26_AsStated ==
    [][DecodesCell =>
        IF IsInteger(input) /\ IntegerOf(input) \in RangeOf(fields[1].kind)
        THEN CellSucceeds ELSE CellFails]_vars

\* C26 amended: a signed column takes an optional sign and decimal digits, an
\* unsigned column takes decimal digits and no sign; the decode succeeds
\* exactly when the text has that form and its integer is in the range of
\* the width, and else fails with ErrDecodeValueType, the field unchanged
C26_WidthExact ==
    [][DecodesCell =>
        IF /\ IF fields[1].kind \in SignedKinds THEN IsInteger(input)
                                                  ELSE IsUnsignedInteger(input)
           /\ IntegerOf(input) \in RangeOf(fields[1].kind)
        THEN CellSucceeds ELSE CellFails]_vars

\* "1000" failed in an 8-bit signed column and left the field as it was
C26_Witness ==
    /\ session = "codec" /\ fields[1].kind = "int8" /\ input = <<"1", "0", "0", "0">>
    /\ ret.op = "decodeInt" /\ ret.err = PlainErr("ErrDecodeValueType")
    /\ one = <<PriorValue>>

\* "100" decoded in an 8-bit signed column
C26_Hundred ==
    /\ session = "codec" /\ fields[1].kind = "int8" /\ input = <<"1", "0", "0">>
    /\ ret.op = "decodeInt" /\ ret.err = NilErr /\ one = <<100>>

\* a signed text that denotes an integer of the range failed in an unsigned column
C26_SignRejected ==
    /\ session = "codec" /\ fields[1].kind = "uint8" /\ input = <<"+", "5">>
    /\ ret.op = "decodeUint" /\ ret.err = PlainErr("ErrDecodeValueType")

(***************************************************************************)
(* Inline groups held by pointer.                                          *)
(***************************************************************************)
\* the columns of the group that the live header carries
LiveGroupColumns == Len(input[1].records) - 1

\* the group of data row i with the value of every live column decoded
DecodedGroup(i) ==
    IF fields[2].kind = "dynamic"
    THEN [Header |-> Tail(input[1].records),
          Values |-> [k \in 1..LiveGroupColumns |-> IntOfText[input[i].records[k + 1]]]]
    ELSE [k \in 1..Len(fields[2].sub) |->
            IF k <= LiveGroupColumns THEN IntOfText[input[i].records[k + 1]] ELSE 0]

\* the records of the data rows, every column decoded
DecodedRecords ==
    [i \in 1..(Len(input) - 1) |-> <<IntOfText[input[i + 1].records[1]], DecodedGroup(i + 1)>>]

\* the first call is a Decode and the input has a data row
DecodesGroupRows == FirstDecode /\ ret'.op = "Decode" /\ Len(input) > 1

\* Decode returns the records with every column of the group
KeepsEveryColumn == ret'.err = NilErr /\ dest' = DecodedRecords

\* C27: when an inline group, fixed or dynamic, is declared through a pointer
\* field and the live header carries two or more of its columns, the nested
\* record holds after a row is decoded the values of all of those columns: a
\* later column of the group never discards what an earlier one wrote
C27_PointerGroupKeepsAll ==
    [][(DecodesGroupRows /\ fields[2].pointer /\ LiveGroupColumns >= 2)
        => KeepsEveryColumn]_vars

\* a group held by value, or one live column of a group held by pointer,
\* decodes to the values of its columns
C27_OtherGroupsKeepAll ==
    [][(DecodesGroupRows /\ ~(fields[2].pointer /\ LiveGroupColumns >= 2))
        => KeepsEveryColumn]_vars

\* a fixed group held by pointer lost the value of its first column: Decode
\* returned no error and the record of row 1,2,3 holds 0 and 3
C27_EarlierColumnLost ==
    /\ session = "decoder" /\ ret.op = "Decode" /\ ret.err = NilErr
    /\ fields[2].pointer /\ fields[2].kind = "fixed"
    /\ Len(input) = 2 /\ input[2].records = <<"1", "2", "3">>
    /\ dest = <<<<1, <<0, 3>>>>>>

\* the second column of a dynamic group held by pointer left Decode in a panic
C27_DynamicGroupPanics ==
    /\ session = "decoder" /\ ret.op = "Decode" /\ ret.err = PanicErr
    /\ fields[2].pointer /\ fields[2].kind = "dynamic" /\ LiveGroupColumns = 2

(***************************************************************************)
(* The cursor of a dynamic group on encode.                                *)
(***************************************************************************)
\* the first call is an Encode of items of a record type with a dynamic group
EncodesDynamicRows ==
    FirstEncode /\ ret'.op = "Encode" /\ Len(ret'.arg) > 0 /\ fields[2].kind = "dynamic"

\* the width of the group, fixed from the Header of the first row
GroupWidth == Len(ret'.arg[1][2].Header)

\* a later row has fewer Values than the group is wide
ShorterRow == \E i \in 2..Len(ret'.arg) : Len(ret'.arg[i][2].Values) < GroupWidth

\* the call does not leave in a panic, and every row it wrote has one field
\* per column of the header
EveryRowAsWide ==
    /\ ret'.err # PanicErr
    /\ \A k \in (Len(out) + 1)..Len(out') : Len(out'[k]) = 1 + GroupWidth

\* C28: while encoding any row the cursor of a dynamic group only indexes
\* positions that exist in that row's Values: whatever the length of a later
\* row's Values, the row is encoded without an out-of-range access and
\* contributes exactly the width fixed from the first row's Header, so every
\* written data row has as many fields as the header
C28_CursorInRange == [][EncodesDynamicRows => EveryRowAsWide]_vars

\* the rows are as wide as the header when no later row has fewer Values
C28_CursorInRangeUnlessShorter ==
    [][(EncodesDynamicRows /\ ~ShorterRow) => EveryRowAsWide]_vars

\* a second row with one value under a header of two group columns left
\* Encode in a panic after the header and the first row were written
C28_ShortRowPanics ==
    /\ session = "encoder" /\ ret.op = "Encode" /\ ret.err = PanicErr
    /\ Len(ret.arg) = 2
    /\ Len(ret.arg[1][2].Header) = 2 /\ Len(ret.arg[2][2].Values) = 1
    /\ Len(out) = 2

\* a second row with two values under a header of one group column was
\* written with its first value only
C28_LongRowCut ==
    /\ session = "encoder" /\ ret.op = "Encode" /\ ret.err = NilErr
    /\ Len(ret.arg) = 2
    /\ Len(ret.arg[1][2].Header) = 1 /\ ret.arg[2][2].Values = <<2, 3>>
    /\ Len(out) = 3 /\ out[3] = <<"1", "2">>

(***************************************************************************)
(* EncodeOne by value and by pointer.                                      *)
(***************************************************************************)
\* the first call is an EncodeOne of a record of the session's type, by value
\* or by pointer, and every column of the type can be encoded
EncodesOneRecord ==
    FirstEncode /\ ret'.op = "EncodeOne" /\ ret'.v \in {"Item", "*Item"}
    /\ \A k \in 1..Len(fields) : fields[k].kind = "int"

\* the one-element slice that holds the record
SliceOfOne == [type |-> "[]" \o ret'.v, isNil |-> FALSE, items |-> ret'.arg]

\* the call did what Encode does with the one-element slice and some Writer
SameAsEncode ==
    \E budget \in 0..(MaxItems + 1) :
        /\ out' = EncodeCall(cfg, e, SliceOfOne, [out |-> out, budget |-> budget, err |-> ""]).out
        /\ ret'.err = EncodeCall(cfg, e, SliceOfOne, [out |-> out, budget |-> budget, err |-> ""]).err

\* the row of the record's column values
RecordRow == [k \in 1..Len(fields) |-> IntText(ret'.arg[1][k])]

\* the call fails in the Writer only, and a call that succeeds wrote the
\* header, in header mode, and then the row of the record
WritesHeaderAndRow ==
    /\ ret'.err \in {NilErr, OfCause("io.ErrShortWrite")}
    /\ ret'.err = NilErr =>
            out' = IF cfg.NoHeaderMode THEN <<RecordRow>>
                   ELSE <<FlatHeader(fields, ret'.arg[1], 1), RecordRow>>

\* C29: EncodeOne accepts a record passed by value and a non-nil pointer to a
\* record alike: the call writes the header first if it is the first call,
\* then exactly one data row carrying the record's column values, the row
\* that Encode writes for a one-element slice holding that record
C29_EncodeOneValueOrPointer ==
    [][EncodesOneRecord => WritesHeaderAndRow /\ SameAsEncode]_vars

\* a record passed by value is written as Encode writes it
C29_EncodeOneByValue ==
    [][(EncodesOneRecord /\ ret'.v = "Item") => WritesHeaderAndRow /\ SameAsEncode]_vars

\* EncodeOne of a pointer to a record left in a panic after the header was written
C29_PointerPanics ==
    /\ session = "encoder" /\ ret.op = "EncodeOne" /\ ret.v = "*Item"
    /\ ret.err = PanicErr /\ out = <<<<"a", "b">>>>

(***************************************************************************)
(* Decode is one-shot.                                                     *)
(***************************************************************************)
\* the last call was a Decode, and it returned
DecodeReturned == session = "decoder" /\ ret.op = "Decode" /\ ret.err # PanicErr

\* what a Decode into variable v returns if it is the next call
NextDecode(v) == DecodeCall(cfg, d, v, input, dest)

\* the call is refused: ErrFinished or ErrAlreadyFailed, and no result
Refused(r) ==
    /\ r.err \in {PlainErr("ErrFinished"), PlainErr("ErrAlreadyFailed")}
    /\ ~r.result.set

\* the last Decode returned the errors it collected and did not stop
CollectedWithoutStop == ret.err.kind = "errors" /\ ~d.shouldStop

\* C30: Decode is one-shot per decoder: after a Decode call has returned,
\* with a nil error, with a fatal error, or with errors collected under
\* StopOnError=false, a later Decode call on that decoder returns
\* ErrFinished or ErrAlreadyFailed and never a result or the accumulated
\* Errors again
C30_DecodeOneShot ==
    DecodeReturned => \A v \in DecodeVars : Refused(NextDecode(v))

\* a later Decode is refused after a Decode that ran, unless that one
\* collected errors without stopping
C30_OneShotUnlessCollected ==
    (DecodeReturned /\ ret.err.kind # "plain" /\ ~CollectedWithoutStop) =>
        \A v \in DecodeVars : Refused(NextDecode(v))

\* a Decode that collected the errors of a row under StopOnError=false left
\* the session open: the next Decode returns the result and the Errors again
C30_ErrorsReturnedAgain ==
    /\ DecodeReturned /\ ~cfg.StopOnError /\ CollectedWithoutStop
    /\ ~d.finished /\ d.rowsData = <<>>
    /\ NextDecode("*[]Item").result.set
    /\ NextDecode("*[]Item").err = ret.err

====
